---- MODULE Spec2Model ----
(***************************************************************************)
(* notion-cli: the command execution harness (runAction / handleError /    *)
(* run), the HTTP request engine (validatePath / doFetch / request) and    *)
(* the pagination engine (paginateAll), modelled as one state machine.     *)
(*                                                                         *)
(* A path is a sequence of one-character strings.  The upstream API is the *)
(* environment: every physical attempt (doFetch) draws its outcome from a  *)
(* small set.                                                              *)
(***************************************************************************)
EXTENDS Integers, Sequences, FiniteSets, TLC

VARIABLES
    rqPc,       \* position inside request(): idle, validate, fetching, returned, thrown
    rqOpts,     \* RequestOptions of the running call: path, retries, endpoint
    attempt,    \* request(): let attempt
    lastError,  \* request(): let lastError
    outcomes,   \* log of what every doFetch call of this request() produced
    slept,      \* delays (ms) request() waited before a retry
    rqResult,   \* the HttpResponse returned or the error thrown by request()
    pgPc,       \* position inside paginateAll(): idle, fetch, await, returned, thrown
    pgNdjson,   \* paginateAll(): options.ndjson
    cursor,     \* paginateAll(): let cursor
    total,      \* paginateAll(): let total
    all,        \* paginateAll(): const all
    cursorLog,  \* the cursor argument of every fetchPage call, in call order
    served,     \* the pages fetchPage returned, in order
    pgResult,   \* what paginateAll() returned or threw
    hPc,        \* position of the invocation: idle, start, resolve, handler, ... exited
    opts,       \* the invocation: options, environment, command
    hErr,       \* the error caught by runAction and passed to handleError
    hResult,    \* the ActionResult the handler returned
    stdout,     \* lines written to process.stdout
    stderr,     \* lines written to process.stderr
    outFile,    \* content written to the --output-file
    exitCode,   \* process exit code, -1 while running
    opsFile,    \* the ops registry file (OPS_PATH): its lines, one receipt per line
    now,        \* the wall clock (Date.now()), in ticks
    proc,       \* per CLI process: the locals of its ops / file-uploads handler
    regCall,    \* the registry function called last, its argument and its result
    ctx         \* the Context resolveContext returned

rqVars == <<rqPc, rqOpts, attempt, lastError, outcomes, slept, rqResult>>
pgVars == <<pgPc, pgNdjson, cursor, total, all, cursorLog, served, pgResult>>
hVars  == <<hPc, opts, hErr, hResult, stdout, stderr, outFile, exitCode>>
opVars == <<opsFile, now, proc, regCall, ctx>>
vars   == <<rqVars, pgVars, hVars, opVars>>

(***************************************************************************)
(* Bounds of the model.                                                    *)
(***************************************************************************)
MaxRetries  == 2   \* largest value of --retries explored
MaxPages    == 3   \* number of pages after which the upstream reports has_more = false
MaxPageLen  == 2   \* largest number of results in one page
MaxPieces   == 3   \* number of pieces a generated path is made of

(***************************************************************************)
(* Error taxonomy (errors.ts).                                             *)
(***************************************************************************)
ErrorCodes ==
    { "INVALID_ARGUMENT", "MISSING_ARGUMENT", "RESOURCE_NOT_FOUND", "ALREADY_EXISTS",
      "PERMISSION_DENIED", "AUTH_FAILED", "RATE_LIMITED", "TIMEOUT", "CONFLICT",
      "PRECONDITION_FAILED", "CONFIRMATION_REQUIRED", "IDEMPOTENCY_KEY_CONFLICT",
      "UNSUPPORTED_SCHEMA_VERSION", "INTERNAL_ERROR", "DEPENDENCY_MISSING",
      "CONFIG_ERROR", "UNSUPPORTED_OPERATION" }

\* EXIT_CODES: a total table over ErrorCode plus SUCCESS and PARTIAL
EXIT_CODES(code) ==
    CASE code = "SUCCESS"                     -> 0
      [] code = "PARTIAL"                     -> 3
      [] code = "INVALID_ARGUMENT"            -> 2
      [] code = "MISSING_ARGUMENT"            -> 2
      [] code = "RESOURCE_NOT_FOUND"          -> 4
      [] code = "ALREADY_EXISTS"              -> 1
      [] code = "PERMISSION_DENIED"           -> 11
      [] code = "AUTH_FAILED"                 -> 10
      [] code = "RATE_LIMITED"                -> 12
      [] code = "TIMEOUT"                     -> 20
      [] code = "CONFLICT"                    -> 5
      [] code = "PRECONDITION_FAILED"         -> 1
      [] code = "CONFIRMATION_REQUIRED"       -> 1
      [] code = "IDEMPOTENCY_KEY_CONFLICT"    -> 1
      [] code = "UNSUPPORTED_SCHEMA_VERSION"  -> 1
      [] code = "INTERNAL_ERROR"              -> 125
      [] code = "DEPENDENCY_MISSING"          -> 30
      [] code = "CONFIG_ERROR"                -> 1
      [] code = "UNSUPPORTED_OPERATION"       -> 1

\* new CliError(code, message, {recoverable}); status is context.status (0: none),
\* at is the physical attempt that produced it (0: none), an identity tag
CliError(code, message, recoverable, status, at) ==
    [kind |-> "CliError", code |-> code, message |-> message,
     recoverable |-> recoverable, status |-> status, at |-> at]

\* an Error that is not a CliError (TypeError of fetch, SyntaxError, URIError, ...)
PlainError(name, message, at) ==
    [kind |-> "Error", code |-> name, message |-> message,
     recoverable |-> FALSE, status |-> 0, at |-> at]

NoError ==
    [kind |-> "none", code |-> "", message |-> "", recoverable |-> FALSE,
     status |-> 0, at |-> 0]

\* mutant: the 412 branch is missing
mapHttpStatusToErrorMut(status) ==
    IF status = 400 THEN "INVALID_ARGUMENT"
    ELSE IF status = 401 THEN "AUTH_FAILED"
    ELSE IF status = 403 THEN "PERMISSION_DENIED"
    ELSE IF status = 404 THEN "RESOURCE_NOT_FOUND"
    ELSE IF status = 409 THEN "CONFLICT"
    ELSE IF status = 429 THEN "RATE_LIMITED"
    ELSE IF status = 408 THEN "TIMEOUT"
    ELSE "INTERNAL_ERROR"

mapHttpStatusToError(status) ==
    IF status = 400 THEN "INVALID_ARGUMENT"
    ELSE IF status = 401 THEN "AUTH_FAILED"
    ELSE IF status = 403 THEN "PERMISSION_DENIED"
    ELSE IF status = 404 THEN "RESOURCE_NOT_FOUND"
    ELSE IF status = 409 THEN "CONFLICT"
    ELSE IF status = 412 THEN "PRECONDITION_FAILED"
    ELSE IF status = 429 THEN "RATE_LIMITED"
    ELSE IF status = 408 THEN "TIMEOUT"
    ELSE IF status >= 500 THEN "INTERNAL_ERROR"
    ELSE "INTERNAL_ERROR"

(***************************************************************************)
(* Path safety (validatePath).  Characters of the path alphabet:           *)
(*     /  .  x  %  2  5  e  E  f  F                                        *)
(* The hexadecimal digits among them are 2 5 e E f F, so an escape %hl     *)
(* with h in {2,5} is an ASCII byte and an escape with h in {e,E,f,F} is a *)
(* UTF-8 lead byte whose continuation bytes (%80..%bf) cannot be written   *)
(* in this alphabet: decodeURIComponent raises URIError on it.             *)
(***************************************************************************)
IsHex(c) == c \in {"2", "5", "e", "E", "f", "F"}

HexVal(c) ==
    CASE c = "2" -> 2
      [] c = "5" -> 5
      [] c \in {"e", "E"} -> 14
      [] c \in {"f", "F"} -> 15

\* the character of an ASCII byte that two digits of the alphabet can spell
CharOfByte(b) ==
    CASE b = 34 -> "\""
      [] b = 37 -> "%"
      [] b = 46 -> "."
      [] b = 47 -> "/"
      [] b = 82 -> "R"
      [] b = 85 -> "U"
      [] b = 94 -> "^"
      [] b = 95 -> "_"

URIError == [ok |-> FALSE, val |-> <<>>]

RECURSIVE decodeFrom(_, _)
decodeFrom(s, i) ==
    IF i > Len(s) THEN [ok |-> TRUE, val |-> <<>>]
    ELSE IF s[i] # "%"
         THEN LET r == decodeFrom(s, i + 1)
              IN  [ok |-> r.ok, val |-> IF r.ok THEN <<s[i]>> \o r.val ELSE <<>>]
    ELSE IF i + 2 > Len(s) THEN URIError
    ELSE IF ~IsHex(s[i + 1]) \/ ~IsHex(s[i + 2]) THEN URIError
    ELSE IF HexVal(s[i + 1]) >= 8 THEN URIError
    ELSE LET r == decodeFrom(s, i + 3)
             c == CharOfByte(16 * HexVal(s[i + 1]) + HexVal(s[i + 2]))
         IN  [ok |-> r.ok, val |-> IF r.ok THEN <<c>> \o r.val ELSE <<>>]

decodeURIComponent(s) == decodeFrom(s, 1)

toLowerChar(c) ==
    CASE c = "E" -> "e"
      [] c = "F" -> "f"
      [] c = "R" -> "r"
      [] c = "U" -> "u"
      [] OTHER   -> c

toLowerCase(s) == [i \in 1..Len(s) |-> toLowerChar(s[i])]

includes(s, t) ==
    \E i \in 1..(Len(s) - Len(t) + 1) : SubSeq(s, i, i + Len(t) - 1) = t

\* lowered.includes("..") || lowered.includes("%2e")
IsTraversal(lowered) ==
    includes(lowered, <<".", ".">>) \/ includes(lowered, <<"%", "2", "e">>)

\* validatePath: "ok", or the error it throws
validatePath(pathValue) ==
    LET d == decodeURIComponent(pathValue)
    IN  IF ~d.ok THEN PlainError("URIError", "URI malformed", 0)
        ELSE IF IsTraversal(toLowerCase(d.val))
             THEN CliError("INVALID_ARGUMENT", "Path traversal is not allowed", TRUE, 0, 0)
             ELSE NoError

(***************************************************************************)
(* The upstream API: what one physical attempt (doFetch) can produce.      *)
(***************************************************************************)
Null == "null"                      \* JavaScript null / undefined
Falsy(v) == v \in {Null, ""}

Statuses == {200, 299, 300, 400, 401, 403, 404, 408, 409, 412, 418, 429, 500, 503}
Is2xx(status) == status >= 200 /\ status < 300

RetryAfterValues == {-1, 2}         \* retry-after header in seconds, -1: header absent
\* the cursor the upstream hands out with its k-th page, a different one each time
CursorOf(k) == "cursor" \o ToString(k)

RECURSIVE SumLen(_)
SumLen(pages) ==
    IF pages = <<>> THEN 0 ELSE Len(Head(pages).results) + SumLen(Tail(pages))

\* a list page holding the next n items of the upstream collection; the items of
\* the collection are numbered 1, 2, 3, ... so that every item is distinct
PageOf(base, n, more, next) ==
    [results |-> [i \in 1..n |-> base + i], has_more |-> more, next_cursor |-> next]

\* the pages a list endpoint can answer after it has served the pages in sv: the
\* upstream reports has_more = false at the latest on page MaxPages
ListBodies(sv) ==
    { PageOf(SumLen(sv), n, more, next) :
        n \in 0..MaxPageLen,
        more \in (IF Len(sv) + 1 >= MaxPages THEN {FALSE} ELSE BOOLEAN),
        next \in {CursorOf(Len(sv) + 1), Null} }

ObjectBody == [object |-> "thing", message |-> ""]
\* the body of an error response: with or without a message for 404 and 500,
\* without one for the other statuses
ErrorBodies(status) ==
    { [message |-> m] :
        m \in (IF status \in {404, 500} THEN {"", "not found"} ELSE {""}) }

Outcome(kind, status, data, retryAfter) ==
    [kind |-> kind, status |-> status, data |-> data, retryAfter |-> retryAfter]

\* doFetch: a response (status, parsed body, retry-after header), an abort by the
\* timeout timer, or any other error (fetch failure, unparsable body)
Outcomes(endpoint, sv) ==
    { Outcome("response", s, d, -1) :
        s \in {x \in Statuses : Is2xx(x)},
        d \in (IF endpoint = "list" THEN ListBodies(sv) ELSE {ObjectBody}) }
    \cup UNION { { Outcome("response", s, d, -1) : d \in ErrorBodies(s) } :
                  s \in {x \in Statuses : ~Is2xx(x) /\ x # 429} }
    \cup { Outcome("response", 429, [message |-> ""], ra) : ra \in RetryAfterValues }
    \cup { Outcome("abort", 0, [message |-> ""], -1),
           Outcome("error", 0, [message |-> ""], -1) }

(***************************************************************************)
(* request() (HTTP request engine).                                        *)
(***************************************************************************)
NoResult == [kind |-> "none"]
NoRequest == [path |-> <<>>, retries |-> 0, endpoint |-> "object"]

\* the caller has taken the result of request(): its locals are gone
RequestEnd ==
    /\ rqPc' = "idle"
    /\ rqOpts' = NoRequest
    /\ attempt' = 0
    /\ lastError' = NoError
    /\ outcomes' = <<>>
    /\ slept' = <<>>
    /\ rqResult' = NoResult

\* while (attempt <= options.retries)
LoopGuard(att, retries) == att <= retries

\* mutant: the budget test is off by one
AttemptsRemainMut(att, retries) == att < retries

\* if (attempt <= options.retries): the 429 branch and the TIMEOUT branch
AttemptsRemain(att, retries) == att <= retries

\* if (attempt > options.retries) break: the branch of a non-CliError error
Exhausted(att, retries) == att > retries

\* recoverable: response.status === 429 || response.status >= 500
HttpRecoverable(status) == status = 429 \/ status >= 500

\* errorData?.message || `Request failed with ${response.status}`
HttpMessage(o) ==
    IF o.data.message # "" THEN o.data.message
    ELSE "Request failed with " \o ToString(o.status)

\* what the try block of one iteration throws for outcome o of attempt att
\* (NoError: it returns the response, or waits and continues on a 429)
Raised(o, att, retries) ==
    CASE o.kind = "abort" ->
            CliError("TIMEOUT", "Request timed out", TRUE, 0, att)
      [] o.kind = "error" ->
            PlainError("TypeError", "fetch failed", att)
      [] o.kind = "response" /\ Is2xx(o.status) -> NoError
      [] o.kind = "response" /\ o.status = 429 /\ AttemptsRemain(att, retries) -> NoError
      [] OTHER ->
            CliError(mapHttpStatusToError(o.status), HttpMessage(o),
                     HttpRecoverable(o.status), o.status, att)

\* mutant: a TIMEOUT is rethrown at once
CatchContinuesNoTimeoutMut(e, att, retries) ==
    IF e.kind = "CliError" THEN FALSE ELSE ~Exhausted(att, retries)

\* mutant: a mapped 5xx error is retried like a TIMEOUT
CatchContinuesServerErrorMut(e, att, retries) ==
    IF e.kind = "CliError"
    THEN e.code \in {"TIMEOUT", "INTERNAL_ERROR"} /\ AttemptsRemain(att, retries)
    ELSE ~Exhausted(att, retries)

\* the catch block: does the loop go on after error e of attempt att
CatchContinues(e, att, retries) ==
    IF e.kind = "CliError"
    THEN e.code = "TIMEOUT" /\ AttemptsRemain(att, retries)
    ELSE ~Exhausted(att, retries)

\* after the loop: throw lastError if it is an Error, else INTERNAL_ERROR
AfterLoop(le) ==
    IF le.kind # "none" THEN le
    ELSE CliError("INTERNAL_ERROR", "Request failed", FALSE, 0, 0)

\* the loop head, reached with attempt = att and lastError = le
LoopHead(att, le) ==
    IF LoopGuard(att, rqOpts.retries)
    THEN /\ attempt' = att + 1
         /\ rqPc' = "fetching"
         /\ rqResult' = NoResult
    ELSE /\ attempt' = att
         /\ rqPc' = "thrown"
         /\ rqResult' = AfterLoop(le)

\* request(): validatePath, build url / headers / init, enter the retry loop
RequestStart ==
    /\ rqPc = "validate"
    /\ LET v == validatePath(rqOpts.path)
       IN  IF v.kind # "none"
           THEN /\ rqPc' = "thrown"
                /\ rqResult' = v
                /\ attempt' = attempt
           ELSE LoopHead(0, NoError)
    /\ UNCHANGED <<rqOpts, lastError, outcomes, slept>>
    /\ UNCHANGED <<pgVars, hVars>>
    /\ UNCHANGED opVars

\* one physical attempt: doFetch answers with o, and the rest of the iteration
RequestAttempt ==
    /\ rqPc = "fetching"
    /\ \E o \in Outcomes(rqOpts.endpoint, served) :
         LET e == Raised(o, attempt, rqOpts.retries)
         IN  /\ outcomes' = Append(outcomes, o)
             /\ IF e.kind = "none"
                THEN IF Is2xx(o.status)
                     THEN /\ rqPc' = "returned"
                          /\ rqResult' = [kind |-> "response", status |-> o.status,
                                          data |-> o.data]
                          /\ UNCHANGED <<attempt, lastError, slept>>
                     ELSE /\ slept' = Append(slept,
                                 IF o.retryAfter # -1 THEN o.retryAfter * 1000 ELSE 1000)
                          /\ lastError' = lastError
                          /\ LoopHead(attempt, lastError)
                ELSE /\ lastError' = e
                     /\ slept' = slept
                     /\ IF CatchContinues(e, attempt, rqOpts.retries)
                        THEN LoopHead(attempt, e)
                        ELSE /\ rqPc' = "thrown"
                             /\ rqResult' = e
                             /\ attempt' = attempt
    /\ UNCHANGED rqOpts
    /\ UNCHANGED <<pgVars, hVars>>
    /\ UNCHANGED opVars

NextRequest == RequestStart \/ RequestAttempt

(***************************************************************************)
(* paginateAll() (pagination engine).  fetchPage is the closure the list   *)
(* commands pass: one request() to the list endpoint with the cursor, and  *)
(* its response.data is the page.                                          *)
(***************************************************************************)
ItemLine(item) == [type |-> "item", data |-> item]
SummaryLine(count) == [type |-> "summary", count |-> count]

\* for (const item of page.results) writeNdjsonLine({type: "item", data: item})
ItemLines(results) == [i \in 1..Len(results) |-> ItemLine(results[i])]

\* mutant: the page is put in front of the accumulator
PushAllMut(acc, results) == results \o acc

\* all.push(...page.results)
PushAll(acc, results) == acc \o results

\* mutant: the count goes up by one per page
CountItemsMut(count, results) == count + 1

\* total += 1 for every item of the page
CountItems(count, results) == count + Len(results)

\* mutant: only has_more ends the loop
LastPageMut(page) == ~page.has_more

\* if (!page.has_more || !page.next_cursor)
LastPage(page) == ~page.has_more \/ Falsy(page.next_cursor)

\* the request a fetchPage call issues
FetchPageOptions == [path |-> opts.path, retries |-> opts.retries, endpoint |-> "list"]

\* const page = await fetchPage(cursor): the call
PaginateFetch ==
    /\ pgPc = "fetch"
    /\ rqPc = "idle"
    /\ cursorLog' = Append(cursorLog, cursor)
    /\ pgPc' = "await"
    /\ rqPc' = "validate"
    /\ rqOpts' = FetchPageOptions
    /\ attempt' = 0
    /\ lastError' = NoError
    /\ outcomes' = <<>>
    /\ slept' = <<>>
    /\ rqResult' = NoResult
    /\ UNCHANGED <<pgNdjson, cursor, total, all, served, pgResult>>
    /\ UNCHANGED hVars
    /\ UNCHANGED opVars

\* fetchPage returned a page: the rest of the iteration and, after the last page,
\* the end of paginateAll
PaginatePage ==
    /\ pgPc = "await"
    /\ rqPc = "returned"
    /\ LET page == rqResult.data
           out  == IF pgNdjson THEN stdout \o ItemLines(page.results) ELSE stdout
           acc  == IF pgNdjson THEN all ELSE PushAll(all, page.results)
           tot  == IF pgNdjson THEN CountItems(total, page.results) ELSE Len(acc)
       IN  /\ served' = Append(served, page)
           /\ all' = acc
           /\ total' = tot
           /\ IF LastPage(page)
              THEN /\ cursor' = Null
                   /\ pgPc' = "returned"
                   /\ IF pgNdjson
                      THEN /\ stdout' = Append(out, SummaryLine(tot))
                           /\ pgResult' = [kind |-> "null"]
                      ELSE /\ stdout' = out
                           /\ pgResult' = [kind |-> "value", results |-> acc, total |-> tot]
              ELSE /\ cursor' = page.next_cursor
                   /\ pgPc' = "fetch"
                   /\ stdout' = out
                   /\ pgResult' = pgResult
    /\ RequestEnd
    /\ UNCHANGED <<pgNdjson, cursorLog>>
    /\ UNCHANGED <<hPc, opts, hErr, hResult, stderr, outFile, exitCode>>
    /\ UNCHANGED opVars

\* fetchPage rejected: paginateAll has no handler, the error leaves it
PaginateThrow ==
    /\ pgPc = "await"
    /\ rqPc = "thrown"
    /\ pgPc' = "thrown"
    /\ pgResult' = rqResult
    /\ RequestEnd
    /\ UNCHANGED <<pgNdjson, cursor, total, all, cursorLog, served>>
    /\ UNCHANGED hVars
    /\ UNCHANGED opVars

NextPaginate == PaginateFetch \/ PaginatePage \/ PaginateThrow

(***************************************************************************)
(* The command execution harness: runAction, emitOutput, handleError and   *)
(* the tail of run() in index.ts.                                          *)
(***************************************************************************)
NoExitCode == -1                    \* result.exitCode undefined / process still running

\* successEnvelope / errorEnvelope as written by writeJson
SuccessEnvelope(command, data) ==
    [type |-> "envelope", status |-> "success", command |-> command, data |-> data]
ErrorEnvelope(command, e) ==
    [type |-> "envelope", status |-> "error", command |-> command,
     error |-> [code |-> e.code, message |-> e.message, recoverable |-> e.recoverable]]

\* handleError: a CliError is used as it is, an Error keeps its message, anything
\* else becomes "Unknown error"
Coerce(e) ==
    IF e.kind = "CliError" THEN e
    ELSE IF e.kind = "Error"
         THEN CliError("INTERNAL_ERROR", e.message, FALSE, 0, 0)
         ELSE CliError("INTERNAL_ERROR", "Unknown error", FALSE, 0, 0)

\* EXIT_CODES[cliError.code] ?? EXIT_CODES.INTERNAL_ERROR
ExitCodeOf(code) ==
    IF code \in ErrorCodes THEN EXIT_CODES(code) ELSE EXIT_CODES("INTERNAL_ERROR")

\* (result.data as any)?.streamed === true
IsStreamed(data) == "streamed" \in DOMAIN data /\ data.streamed = TRUE

\* run().catch: a rejection that leaves runAction ends the process here
RunCatch(e) ==
    /\ stderr' = Append(stderr, "INTERNAL_ERROR: " \o e.message)
    /\ exitCode' = EXIT_CODES("INTERNAL_ERROR")
    /\ hPc' = "exited"

\* runAction: ensureTokenStdinSafe(mergedOptions, stdinInputs)
RunActionStart ==
    /\ hPc = "start"
    /\ IF opts.tokenStdin /\ opts.stdinDash
       THEN /\ hErr' = CliError("INVALID_ARGUMENT",
                           "--token-stdin cannot be used with stdin JSON input", TRUE, 0, 0)
            /\ hPc' = "handleError"
       ELSE /\ hErr' = hErr
            /\ hPc' = "resolve"
    /\ UNCHANGED <<opts, hResult, stdout, stderr, outFile, exitCode>>
    /\ UNCHANGED <<rqVars, pgVars>>
    /\ UNCHANGED opVars

\* runAction: resolveContext(command, mergedOptions); loadConfigFile rethrows every
\* failure but ENOENT (unreadable file, JSON.parse of a malformed file)
RunActionResolve ==
    /\ hPc = "resolve"
    /\ IF opts.configOk
       THEN /\ hErr' = hErr
            /\ hPc' = "handler"
       ELSE /\ hErr' = PlainError("SyntaxError", "Unexpected token in JSON", 0)
            /\ hPc' = "handleError"
    /\ UNCHANGED <<opts, hResult, stdout, stderr, outFile, exitCode>>
    /\ UNCHANGED <<rqVars, pgVars>>
    /\ UNCHANGED opVars

\* requireToken(ctx.config)
requireToken(token) ==
    IF token THEN NoError
    ELSE CliError("AUTH_FAILED", "Missing Notion token", FALSE, 0, 0)

\* the handler of the pass-through request command, up to its request() call
HandlerRequestCall ==
    /\ hPc = "handler"
    /\ opts.command = "request"
    /\ IF requireToken(opts.token).kind # "none"
       THEN /\ hErr' = requireToken(opts.token)
            /\ hPc' = "handleError"
            /\ UNCHANGED rqVars
       ELSE /\ hErr' = hErr
            /\ hPc' = "awaitRequest"
            /\ rqPc' = "validate"
            /\ rqOpts' = [path |-> opts.path, retries |-> opts.retries,
                          endpoint |-> "object"]
            /\ attempt' = 0
            /\ lastError' = NoError
            /\ outcomes' = <<>>
            /\ slept' = <<>>
            /\ rqResult' = NoResult
    /\ UNCHANGED <<opts, hResult, stdout, stderr, outFile, exitCode>>
    /\ UNCHANGED pgVars
    /\ UNCHANGED opVars

\* the rest of that handler: return {data: response.data}, or the error of request()
HandlerRequestDone ==
    /\ hPc = "awaitRequest"
    /\ rqPc \in {"returned", "thrown"}
    /\ IF rqPc = "returned"
       THEN /\ hResult' = [data |-> rqResult.data, exitCode |-> NoExitCode]
            /\ hPc' = "emit"
            /\ hErr' = hErr
       ELSE /\ hErr' = rqResult
            /\ hPc' = "handleError"
            /\ hResult' = hResult
    /\ RequestEnd
    /\ UNCHANGED <<opts, stdout, stderr, outFile, exitCode>>
    /\ UNCHANGED pgVars
    /\ UNCHANGED opVars

\* the handler of users list --all, up to its paginateAll() call
HandlerListCall ==
    /\ hPc = "handler"
    /\ opts.command = "users list --all"
    /\ IF requireToken(opts.token).kind # "none"
       THEN /\ hErr' = requireToken(opts.token)
            /\ hPc' = "handleError"
            /\ UNCHANGED pgVars
       ELSE /\ hErr' = hErr
            /\ hPc' = "awaitPaginate"
            /\ pgPc' = "fetch"
            /\ pgNdjson' = opts.ndjson
            /\ cursor' = Null
            /\ total' = 0
            /\ all' = <<>>
            /\ cursorLog' = <<>>
            /\ served' = <<>>
            /\ pgResult' = NoResult
    /\ UNCHANGED <<opts, hResult, stdout, stderr, outFile, exitCode>>
    /\ UNCHANGED rqVars
    /\ UNCHANGED opVars

\* the rest of that handler: return {data: results ?? {streamed: true}}
HandlerListDone ==
    /\ hPc = "awaitPaginate"
    /\ pgPc \in {"returned", "thrown"}
    /\ IF pgPc = "returned"
       THEN /\ hResult' = [data |-> IF pgResult.kind = "null"
                                    THEN [streamed |-> TRUE]
                                    ELSE [results |-> pgResult.results,
                                          total |-> pgResult.total],
                           exitCode |-> NoExitCode]
            /\ hPc' = "emit"
            /\ hErr' = hErr
       ELSE /\ hErr' = pgResult
            /\ hPc' = "handleError"
            /\ hResult' = hResult
    /\ pgPc' = "idle"
    /\ UNCHANGED <<pgNdjson, cursor, total, all, cursorLog, served, pgResult>>
    /\ UNCHANGED <<opts, stdout, stderr, outFile, exitCode>>
    /\ UNCHANGED rqVars
    /\ UNCHANGED opVars

\* what a handler that makes no request can do: return a result, with or without
\* an exit code of its own (dry-run: 40), or throw a CliError of any code, an
\* Error, or a value that is no Error
LocalResults ==
    { [data |-> [value |-> "ok"], exitCode |-> NoExitCode],
      [data |-> [dry_run |-> TRUE], exitCode |-> 40] }
LocalThrows ==
    { CliError(c, "handler failed", r, 0, 0) : c \in ErrorCodes, r \in BOOLEAN }
    \cup { PlainError("Error", "handler crashed", 0),
           [kind |-> "value", code |-> "", message |-> "", recoverable |-> FALSE,
            status |-> 0, at |-> 0] }

\* const result = await handler(ctx), for a handler that makes no request
HandlerLocal ==
    /\ hPc = "handler"
    /\ opts.command = "local"
    /\ \/ \E r \in LocalResults :
            /\ hResult' = r
            /\ hPc' = "emit"
            /\ hErr' = hErr
       \/ \E e \in LocalThrows :
            /\ hErr' = e
            /\ hPc' = "handleError"
            /\ hResult' = hResult
    /\ UNCHANGED <<opts, stdout, stderr, outFile, exitCode>>
    /\ UNCHANGED <<rqVars, pgVars>>
    /\ UNCHANGED opVars

\* emitOutput(ctx, envelope): writeJson to stdout, then fs.writeFile when an
\* output file is configured; WriteFails: the file cannot be written
WriteFails == opts.outputFile = "unwritable"
FileError == PlainError("Error", "ENOENT: no such file or directory", 0)

\* runAction after the handler returned: the success envelope unless the result
\* was streamed, then process.exit(result.exitCode ?? EXIT_CODES.SUCCESS)
RunActionEmit ==
    /\ hPc = "emit"
    /\ IF opts.ndjson /\ IsStreamed(hResult.data)
       THEN /\ exitCode' = IF hResult.exitCode # NoExitCode
                           THEN hResult.exitCode ELSE EXIT_CODES("SUCCESS")
            /\ hPc' = "exited"
            /\ UNCHANGED <<stdout, outFile, hErr>>
       ELSE /\ stdout' = Append(stdout, SuccessEnvelope(opts.command, hResult.data))
            /\ IF opts.outputFile = "none"
               THEN /\ exitCode' = IF hResult.exitCode # NoExitCode
                                   THEN hResult.exitCode ELSE EXIT_CODES("SUCCESS")
                    /\ hPc' = "exited"
                    /\ UNCHANGED <<outFile, hErr>>
               ELSE IF WriteFails
                    THEN /\ hErr' = FileError
                         /\ hPc' = "handleError"
                         /\ UNCHANGED <<outFile, exitCode>>
                    ELSE /\ outFile' = Append(outFile,
                                         SuccessEnvelope(opts.command, hResult.data))
                         /\ exitCode' = IF hResult.exitCode # NoExitCode
                                        THEN hResult.exitCode ELSE EXIT_CODES("SUCCESS")
                         /\ hPc' = "exited"
                         /\ hErr' = hErr
    /\ UNCHANGED <<opts, hResult, stderr>>
    /\ UNCHANGED <<rqVars, pgVars>>
    /\ UNCHANGED opVars

\* handleError(command, error, start, options), called from the catch of runAction;
\* a rejection inside it (resolveContext, fs.writeFile) leaves runAction and ends in
\* run().catch
HandleError ==
    /\ hPc = "handleError"
    /\ IF ~opts.configOk
       THEN /\ RunCatch(PlainError("SyntaxError", "Unexpected token in JSON", 0))
            /\ UNCHANGED <<stdout, outFile>>
       ELSE LET cliError == Coerce(hErr)
                envelope == ErrorEnvelope(opts.command, cliError)
            IN  /\ stdout' = Append(stdout, envelope)
                /\ IF opts.outputFile # "none" /\ WriteFails
                   THEN /\ RunCatch(FileError)
                        /\ outFile' = outFile
                   ELSE /\ outFile' = IF opts.outputFile = "none" THEN outFile
                                      ELSE Append(outFile, envelope)
                        /\ stderr' = Append(stderr, cliError.code \o ": " \o cliError.message)
                        /\ exitCode' = ExitCodeOf(cliError.code)
                        /\ hPc' = "exited"
    /\ UNCHANGED <<opts, hErr, hResult>>
    /\ UNCHANGED <<rqVars, pgVars>>
    /\ UNCHANGED opVars

NextHarness ==
    \/ RunActionStart
    \/ RunActionResolve
    \/ HandlerRequestCall
    \/ HandlerRequestDone
    \/ HandlerListCall
    \/ HandlerListDone
    \/ HandlerLocal
    \/ RunActionEmit
    \/ HandleError

(***************************************************************************)
(* The ops registry (registry.js): OPS_PATH holds one JSON receipt per     *)
(* line.  The clock counts ticks; a timestamp is the ISO string of a clock *)
(* value.                                                                  *)
(***************************************************************************)
MaxTimeout == 2     \* largest --timeout of ops wait, in ticks
MaxStored  == 2     \* largest number of receipts the registry file holds

RetentionTicks == 2                 \* RETENTION_DAYS * MILLIS_PER_DAY, in ticks
SleepTicks == 1                     \* the poll interval of ops wait (2000 ms), in ticks
NowStart == RetentionTicks + 1      \* the clock when the invocation starts
ClockEnd == NowStart + MaxTimeout + 1

\* nowIso() at clock value t, and new Date(stamp).getTime()
nowIso(t) == [iso |-> t]
getTime(stamp) == stamp.iso

OpIds == {"X", "Y", "Z"}
ReceiptStatuses == {"PENDING", "IN_PROGRESS", "COMPLETED", "FAILED"}

\* metadata is a map; its keys in this program are note, poll and response, and
\* "" stands for a key that is absent
EmptyMeta == [note |-> "", poll |-> "", response |-> ""]
Meta(key, value) == [EmptyMeta EXCEPT ![key] = value]

NullPoll == [method |-> "", path |-> <<>>]             \* poll: null
NullOpError == [code |-> "", message |-> ""]           \* error: null
\* poll: {method: "GET", path: `/file_uploads/${id}`}, the path in the path alphabet
PollOf(id) == [method |-> "GET", path |-> <<"/", "x">>]

\* createReceipt(input) at clock value t; uuid is what crypto.randomUUID() returns
createReceipt(input, uuid, t) ==
    LET defaults == [op_id |-> uuid, type |-> "operation", status |-> "PENDING",
                     resource_id |-> Null, resource_type |-> Null,
                     created_at |-> nowIso(t), updated_at |-> nowIso(t),
                     metadata |-> EmptyMeta, poll |-> NullPoll, error |-> NullOpError]
    IN  [k \in DOMAIN defaults |-> IF k \in DOMAIN input THEN input[k] ELSE defaults[k]]

\* touchOp(op, patch) at clock value t: {...op, ...patch, updated_at: nowIso()}
touchOp(op, patch, t) ==
    [k \in DOMAIN op |->
        IF k = "updated_at" THEN nowIso(t)
        ELSE IF k \in DOMAIN patch THEN patch[k] ELSE op[k]]

\* one line of the file and back
JSONstringify(op) == [json |-> op]
JSONparse(line) == line.json

\* readOps(): every line of the file parsed (an empty or absent file: [])
readOps(file) == [i \in 1..Len(file) |-> JSONparse(file[i])]

\* writeOps(ops): the lines that replace the file
writeOps(ops) == [i \in 1..Len(ops) |-> JSONstringify(ops[i])]

\* cleanupOps(ops) at clock value t
Cutoff(t) == t - RetentionTicks
Kept(op, t) == getTime(op.updated_at) >= Cutoff(t)

\* mutant: nothing is pruned
cleanupOpsMut(ops, t) == ops

cleanupOps(ops, t) == SelectSeq(ops, LAMBDA op : Kept(op, t))

\* appendOp(op): the list it writes when readOps() gave ops and the clock is t
appendOpMut(ops, op, t) == <<op>> \o cleanupOps(ops, t)

appendOp(ops, op, t) == Append(cleanupOps(ops, t), op)

\* mutant: the entries are replaced whatever their op_id
ReplaceMatchMut(existing, op) == op

\* existing.op_id === op.op_id ? op : existing
ReplaceMatch(existing, op) == IF existing.op_id = op.op_id THEN op ELSE existing

\* updateOp(op): the list it writes when readOps() gave ops and the clock is t
updateOp(ops, op, t) ==
    LET cleaned == cleanupOps(ops, t)
    IN  [i \in 1..Len(cleaned) |-> ReplaceMatch(cleaned[i], op)]

\* opsList.find((item) => item.op_id === id): the index of the first match, 0 if none
FindIndex(ops, id) ==
    IF \E i \in 1..Len(ops) : ops[i].op_id = id
    THEN CHOOSE i \in 1..Len(ops) :
            /\ ops[i].op_id = id
            /\ \A j \in 1..(i - 1) : ops[j].op_id # id
    ELSE 0

\* found.status === "COMPLETED" || found.status === "FAILED"
IsTerminal(status) == status \in {"COMPLETED", "FAILED"}

(***************************************************************************)
(* The handlers of ops get, ops wait, file-uploads send, comments create   *)
(* and pages get.  proc["main"] is the invocation whose harness is modelled;      *)
(* proc["peer"] is a second CLI process that works on the same registry    *)
(* file, of which only the handler is modelled: its request() is one step  *)
(* that returns or throws.  Every await of a handler ends a step.          *)
(***************************************************************************)
Procs == {"main", "peer"}

NoReceipt == createReceipt([op_id |-> ""], "", 0)
NoArgs == [id |-> "", timeout |-> 0, async |-> FALSE, dryRun |-> FALSE,
           fileOk |-> TRUE, input |-> "valid", uuid |-> ""]
NoOutcome == [kind |-> "none", data |-> ObjectBody, exitCode |-> NoExitCode, error |-> NoError]
\* history: the last write of this process to the registry file
NoWrite == [fn |-> "none", at |-> 0, otherPc |-> "idle", stored |-> FALSE]

NoProc ==
    [cmd |-> "none", pc |-> "idle", args |-> NoArgs, deadline |-> 0, found |-> NoReceipt,
     op |-> NoReceipt, failed |-> FALSE, ops |-> <<>>, readAt |-> 0, polls |-> 0,
     result |-> NoOutcome, wrote |-> NoWrite]

Other(p) == IF p = "main" THEN "peer" ELSE "main"

\* return {data, exitCode} / throw error
Returned(l, data, code) ==
    [l EXCEPT !.pc = "returned",
              !.result = [kind |-> "return", data |-> data, exitCode |-> code,
                          error |-> NoError]]
Threw(l, e) ==
    [l EXCEPT !.pc = "threw",
              !.result = [kind |-> "throw", data |-> ObjectBody, exitCode |-> NoExitCode,
                          error |-> e]]

MissingId(message) == CliError("MISSING_ARGUMENT", message, TRUE, 0, 0)
OpNotFound == CliError("RESOURCE_NOT_FOUND", "Op not found", TRUE, 0, 0)
WaitTimedOutMut == CliError("INTERNAL_ERROR", "Op wait timed out", TRUE, 0, 0)

WaitTimedOut == CliError("TIMEOUT", "Op wait timed out", TRUE, 0, 0)

\* what request() gives the peer: a response or an error
PeerResults ==
    { [kind |-> "response", status |-> 200, data |-> ObjectBody],
      CliError("INTERNAL_ERROR", "Request failed with 500", TRUE, 500, 1) }

\* the handler of p runs: the harness of main is inside await handler(ctx)
Running(p) == IF p = "main" THEN hPc = "awaitHandler" ELSE TRUE

\* p calls request(): main enters the request engine, the peer waits for its step
CallRequest(p, path) ==
    IF p = "main"
    THEN /\ rqPc' = "validate"
         /\ rqOpts' = [path |-> path, retries |-> opts.retries, endpoint |-> "object"]
         /\ attempt' = 0
         /\ lastError' = NoError
         /\ outcomes' = <<>>
         /\ slept' = <<>>
         /\ rqResult' = NoResult
    ELSE UNCHANGED rqVars

\* the results request() can hand to p now
RequestResults(p) ==
    IF p = "main"
    THEN (IF rqPc \in {"returned", "thrown"} THEN {rqResult} ELSE {})
    ELSE PeerResults

\* p has taken the result of its request()
TakeRequest(p) == IF p = "main" THEN RequestEnd ELSE UNCHANGED rqVars

\* the steps below leave the harness and the pagination engine alone
OpsFrame == UNCHANGED <<pgVars, hVars, regCall, ctx>>

\* history kept with a write of p to the registry file: the call, the clock, where
\* the other process was, and whether the receipt of the call is in the file now
Wrote(l, p, fn) ==
    [l EXCEPT !.wrote = [fn |-> fn, at |-> now, otherPc |-> proc[Other(p)].pc,
                         stored |-> \E i \in 1..Len(opsFile') :
                                        JSONparse(opsFile'[i]) = l.op]]

\* ops get: parseId, readOps, find
OpsGet ==
    \E p \in Procs :
        /\ Running(p)
        /\ proc[p].cmd = "ops get"
        /\ proc[p].pc = "start"
        /\ LET l == proc[p]
               ops == readOps(opsFile)
               i == FindIndex(ops, l.args.id)
           IN  proc' = [proc EXCEPT ![p] =
                    IF l.args.id = "" THEN Threw(l, MissingId("Op id is required"))
                    ELSE IF i = 0 THEN Threw(l, OpNotFound)
                    ELSE Returned([l EXCEPT !.found = ops[i]], ops[i], NoExitCode)]
        /\ UNCHANGED <<opsFile, now, rqVars>>
        /\ OpsFrame

\* ops wait: parseId and const deadline = Date.now() + opts.timeout * 1000
WaitStart ==
    \E p \in Procs :
        /\ Running(p)
        /\ proc[p].cmd = "ops wait"
        /\ proc[p].pc = "start"
        /\ LET l == proc[p]
           IN  proc' = [proc EXCEPT ![p] =
                    IF l.args.id = "" THEN Threw(l, MissingId("Op id is required"))
                    ELSE [l EXCEPT !.deadline = now + l.args.timeout, !.pc = "loop"]]
        /\ UNCHANGED <<opsFile, now, rqVars>>
        /\ OpsFrame

\* ops wait: the loop head and the iteration up to the poll request or the sleep
WaitLoop ==
    \E p \in Procs :
        /\ Running(p)
        /\ proc[p].cmd = "ops wait"
        /\ proc[p].pc = "loop"
        /\ LET l == proc[p]
               ops == readOps(opsFile)
               i == FindIndex(ops, l.args.id)
           IN  IF ~(now < l.deadline)
               THEN /\ proc' = [proc EXCEPT ![p] = Threw(l, WaitTimedOut)]
                    /\ UNCHANGED rqVars
               ELSE IF i = 0
               THEN /\ proc' = [proc EXCEPT ![p] = Threw(l, OpNotFound)]
                    /\ UNCHANGED rqVars
               ELSE IF IsTerminal(ops[i].status)
               THEN /\ proc' = [proc EXCEPT ![p] =
                                    Returned([l EXCEPT !.found = ops[i]], ops[i], NoExitCode)]
                    /\ UNCHANGED rqVars
               ELSE IF ops[i].poll # NullPoll
               THEN /\ proc' = [proc EXCEPT ![p] =
                                    [l EXCEPT !.found = ops[i], !.pc = "request"]]
                    /\ CallRequest(p, ops[i].poll.path)
               ELSE /\ proc' = [proc EXCEPT ![p] =
                                    [l EXCEPT !.found = ops[i], !.pc = "sleep"]]
                    /\ UNCHANGED rqVars
        /\ UNCHANGED <<opsFile, now>>
        /\ OpsFrame

\* the patch of a poll that succeeded / that failed
PolledPatch(res) == [metadata |-> Meta("poll", res.data.object)]

\* mutant: the failed poll is recorded under another error code
PollFailedPatchMut(res) ==
    [status |-> "FAILED", error |-> [code |-> "INTERNAL_ERROR", message |-> "Poll failed"]]

PollFailedPatch(res) ==
    [status |-> "FAILED",
     error |-> [code |-> "POLL_FAILED",
                message |-> IF res.kind \in {"CliError", "Error"} THEN res.message
                            ELSE "Poll failed"]]

\* ops wait: request() is over; touchOp and the readOps() of updateOp
WaitPolled ==
    \E p \in Procs :
        /\ Running(p)
        /\ proc[p].cmd = "ops wait"
        /\ proc[p].pc = "request"
        /\ \E res \in RequestResults(p) :
             LET l == proc[p]
                 ok == res.kind = "response"
                 patch == IF ok THEN PolledPatch(res) ELSE PollFailedPatch(res)
             IN  proc' = [proc EXCEPT ![p] =
                      [l EXCEPT !.op = touchOp(l.found, patch, now), !.failed = ~ok,
                                !.ops = readOps(opsFile), !.readAt = now,
                                !.polls = l.polls + 1, !.pc = "update"]]
        /\ TakeRequest(p)
        /\ UNCHANGED <<opsFile, now>>
        /\ OpsFrame

\* ops wait: updateOp() writes; cleanupOps ran at a clock value t between its read
\* and now.  After a failed poll the handler returns the failed receipt.
WaitUpdate ==
    \E p \in Procs :
        /\ Running(p)
        /\ proc[p].cmd = "ops wait"
        /\ proc[p].pc = "update"
        /\ \E t \in proc[p].readAt..now :
             opsFile' = writeOps(updateOp(proc[p].ops, proc[p].op, t))
        /\ LET l == Wrote(proc[p], p, "updateOp")
           IN  proc' = [proc EXCEPT ![p] =
                    IF l.failed THEN Returned(l, l.op, NoExitCode)
                    ELSE [l EXCEPT !.pc = "sleep"]]
        /\ UNCHANGED <<now, rqVars>>
        /\ OpsFrame

\* ops wait: await new Promise((resolve) => setTimeout(resolve, 2000))
WaitSleep ==
    \E p \in Procs :
        /\ Running(p)
        /\ proc[p].cmd = "ops wait"
        /\ proc[p].pc = "sleep"
        /\ now' = now + SleepTicks
        /\ proc' = [proc EXCEPT ![p].pc = "loop"]
        /\ UNCHANGED <<opsFile, rqVars>>
        /\ OpsFrame

NextWait == WaitStart \/ WaitLoop \/ WaitPolled \/ WaitUpdate \/ WaitSleep

\* the token of the invocation of p (the peer has one)
TokenOf(p) == IF p = "main" THEN opts.token ELSE TRUE

\* {dry_run: true, request: ...}
DryRunData == [dry_run |-> TRUE]

\* mutant: --dry-run is not looked at
IsDryRunMut(args) == FALSE

\* if (opts.dryRun)
IsDryRun(args) == args.dryRun

\* the receipt file-uploads send creates for upload id at clock value t
SendReceipt(id, uuid, t) ==
    createReceipt([type |-> "file_upload_send", status |-> "IN_PROGRESS",
                   resource_id |-> id, resource_type |-> "file_upload",
                   poll |-> PollOf(id)], uuid, t)

\* file-uploads send: requireToken, parseId, the dry-run exit, createReceipt and,
\* with --async, the readOps() of appendOp
SendStart ==
    \E p \in Procs :
        /\ Running(p)
        /\ proc[p].cmd = "file-uploads send"
        /\ proc[p].pc = "start"
        /\ LET l == proc[p]
               op == SendReceipt(l.args.id, l.args.uuid, now)
           IN  proc' = [proc EXCEPT ![p] =
                    IF requireToken(TokenOf(p)).kind # "none"
                    THEN Threw(l, requireToken(TokenOf(p)))
                    ELSE IF l.args.id = ""
                    THEN Threw(l, MissingId("File upload id is required"))
                    ELSE IF IsDryRun(l.args) THEN Returned(l, DryRunData, 40)
                    ELSE IF l.args.async
                    THEN [l EXCEPT !.op = op, !.ops = readOps(opsFile), !.readAt = now,
                                   !.pc = "append"]
                    ELSE [l EXCEPT !.op = op, !.pc = "upload"]]
        /\ UNCHANGED <<opsFile, now, rqVars>>
        /\ OpsFrame

\* file-uploads send --async: appendOp() writes
SendAppend ==
    \E p \in Procs :
        /\ Running(p)
        /\ proc[p].cmd = "file-uploads send"
        /\ proc[p].pc = "append"
        /\ \E t \in proc[p].readAt..now :
             opsFile' = writeOps(appendOp(proc[p].ops, proc[p].op, t))
        /\ proc' = [proc EXCEPT ![p] = [Wrote(proc[p], p, "appendOp") EXCEPT !.pc = "upload"]]
        /\ UNCHANGED <<now, rqVars>>
        /\ OpsFrame

SendPath(id) == <<"/", "x">>           \* /file_uploads/${id}/send
CommentsPath == <<"/", "x">>           \* /comments

\* file-uploads send: fs.readFile(opts.file) and the call of request()
SendUpload ==
    \E p \in Procs :
        /\ Running(p)
        /\ proc[p].cmd = "file-uploads send"
        /\ proc[p].pc = "upload"
        /\ IF proc[p].args.fileOk
           THEN /\ proc' = [proc EXCEPT ![p].pc = "request"]
                /\ CallRequest(p, SendPath(proc[p].args.id))
           ELSE /\ proc' = [proc EXCEPT ![p] =
                        Threw(proc[p], PlainError("Error", "ENOENT: no such file or directory", 0))]
                /\ UNCHANGED rqVars
        /\ UNCHANGED <<opsFile, now>>
        /\ OpsFrame

\* mutant: the status is left as it was
CompletedPatchMut(res) == [metadata |-> Meta("response", res.data.object)]

\* touchOp(op, {status: "COMPLETED", metadata: {response: response.data}})
CompletedPatch(res) == [status |-> "COMPLETED", metadata |-> Meta("response", res.data.object)]

\* file-uploads send: request() is over; with --async touchOp and the readOps() of
\* updateOp
SendUploaded ==
    \E p \in Procs :
        /\ Running(p)
        /\ proc[p].cmd = "file-uploads send"
        /\ proc[p].pc = "request"
        /\ \E res \in RequestResults(p) :
             LET l == proc[p]
             IN  proc' = [proc EXCEPT ![p] =
                      IF res.kind # "response" THEN Threw(l, res)
                      ELSE IF l.args.async
                      THEN [l EXCEPT !.op = touchOp(l.op, CompletedPatch(res), now),
                                     !.ops = readOps(opsFile), !.readAt = now,
                                     !.pc = "update"]
                      ELSE Returned(l, res.data, NoExitCode)]
        /\ TakeRequest(p)
        /\ UNCHANGED <<opsFile, now>>
        /\ OpsFrame

\* file-uploads send --async: updateOp() writes, return {data: updated}
SendUpdate ==
    \E p \in Procs :
        /\ Running(p)
        /\ proc[p].cmd = "file-uploads send"
        /\ proc[p].pc = "update"
        /\ \E t \in proc[p].readAt..now :
             opsFile' = writeOps(updateOp(proc[p].ops, proc[p].op, t))
        /\ LET l == Wrote(proc[p], p, "updateOp")
           IN  proc' = [proc EXCEPT ![p] = Returned(l, l.op, NoExitCode)]
        /\ UNCHANGED <<now, rqVars>>
        /\ OpsFrame

NextSend == SendStart \/ SendAppend \/ SendUpload \/ SendUploaded \/ SendUpdate

\* comments create: requireToken, readJsonInput of the JSON options (JSON.parse
\* throws on malformed text), validateInput, the dry-run exit, the call of request()
CreateStart ==
    \E p \in Procs :
        /\ Running(p)
        /\ proc[p].cmd = "comments create"
        /\ proc[p].pc = "start"
        /\ LET l == proc[p]
               e == IF requireToken(TokenOf(p)).kind # "none" THEN requireToken(TokenOf(p))
                    ELSE IF l.args.input = "malformed"
                    THEN PlainError("SyntaxError", "Unexpected token in JSON", 0)
                    ELSE IF l.args.input = "invalid"
                    THEN CliError("INVALID_ARGUMENT", "Input validation failed", TRUE, 0, 0)
                    ELSE NoError
           IN  IF e.kind # "none"
               THEN /\ proc' = [proc EXCEPT ![p] = Threw(l, e)]
                    /\ UNCHANGED rqVars
               ELSE IF IsDryRun(l.args)
               THEN /\ proc' = [proc EXCEPT ![p] = Returned(l, DryRunData, 40)]
                    /\ UNCHANGED rqVars
               ELSE /\ proc' = [proc EXCEPT ![p].pc = "request"]
                    /\ CallRequest(p, CommentsPath)
        /\ UNCHANGED <<opsFile, now>>
        /\ OpsFrame

\* comments create: return {data: response.data}, or the error of request()
CreateDone ==
    \E p \in Procs :
        /\ Running(p)
        /\ proc[p].cmd = "comments create"
        /\ proc[p].pc = "request"
        /\ \E res \in RequestResults(p) :
             proc' = [proc EXCEPT ![p] =
                 IF res.kind # "response" THEN Threw(proc[p], res)
                 ELSE Returned(proc[p], res.data, NoExitCode)]
        /\ TakeRequest(p)
        /\ UNCHANGED <<opsFile, now>>
        /\ OpsFrame

NextCreate == CreateStart \/ CreateDone

PagesPath(id) == <<"/", "x">>          \* /pages/${id}

\* pages get: requireToken, parseId, the id check, the call of request()
PagesGetStart ==
    \E p \in Procs :
        /\ Running(p)
        /\ proc[p].cmd = "pages get"
        /\ proc[p].pc = "start"
        /\ LET l == proc[p]
           IN  IF requireToken(TokenOf(p)).kind # "none"
               THEN /\ proc' = [proc EXCEPT ![p] = Threw(l, requireToken(TokenOf(p)))]
                    /\ UNCHANGED rqVars
               ELSE IF l.args.id = ""
               THEN /\ proc' = [proc EXCEPT ![p] = Threw(l, MissingId("Page id is required"))]
                    /\ UNCHANGED rqVars
               ELSE /\ proc' = [proc EXCEPT ![p].pc = "request"]
                    /\ CallRequest(p, PagesPath(l.args.id))
        /\ UNCHANGED <<opsFile, now>>
        /\ OpsFrame

\* pages get: return {data: response.data}, or the error of request()
PagesGetDone ==
    \E p \in Procs :
        /\ Running(p)
        /\ proc[p].cmd = "pages get"
        /\ proc[p].pc = "request"
        /\ \E res \in RequestResults(p) :
             proc' = [proc EXCEPT ![p] =
                 IF res.kind # "response" THEN Threw(proc[p], res)
                 ELSE Returned(proc[p], res.data, NoExitCode)]
        /\ TakeRequest(p)
        /\ UNCHANGED <<opsFile, now>>
        /\ OpsFrame

NextPagesGet == PagesGetStart \/ PagesGetDone

\* time passes
Tick ==
    /\ now < ClockEnd
    /\ now' = now + 1
    /\ UNCHANGED <<opsFile, proc, regCall, ctx>>
    /\ UNCHANGED <<rqVars, pgVars, hVars>>

OpsCommands == {"ops get", "ops wait", "file-uploads send", "comments create", "pages get"}

\* runAction: const result = await handler(ctx), for the handlers above
HandlerOpsCall ==
    /\ hPc = "handler"
    /\ opts.command \in OpsCommands
    /\ proc["main"].pc = "idle"
    /\ hPc' = "awaitHandler"
    /\ proc' = [proc EXCEPT !["main"].pc = "start"]
    /\ UNCHANGED <<opts, hErr, hResult, stdout, stderr, outFile, exitCode>>
    /\ UNCHANGED <<rqVars, pgVars>>
    /\ UNCHANGED <<opsFile, now, regCall, ctx>>

\* the handler returned (result) or threw (caught by runAction)
HandlerOpsDone ==
    /\ hPc = "awaitHandler"
    /\ proc["main"].pc \in {"returned", "threw"}
    /\ LET r == proc["main"].result
       IN  IF r.kind = "return"
           THEN /\ hResult' = [data |-> r.data, exitCode |-> r.exitCode]
                /\ hPc' = "emit"
                /\ hErr' = hErr
           ELSE /\ hErr' = r.error
                /\ hPc' = "handleError"
                /\ hResult' = hResult
    /\ UNCHANGED <<opts, stdout, stderr, outFile, exitCode>>
    /\ UNCHANGED <<rqVars, pgVars>>
    /\ UNCHANGED opVars

(***************************************************************************)
(* Inputs and specifications.                                              *)
(***************************************************************************)
RetriesValues == -1..MaxRetries

UsersPath == <<"/", "x">>
SamplePaths ==
    { UsersPath,
      <<"/", ".", ".", "/", "x">>,
      <<"/", "%", "2", "E", "%", "2", "e", "/">>,
      <<"/", ".", ".", "/", "%">> }

Commands == {"request", "users list --all", "local"}

\* the list command is explored with at most one retry per page here: the retry
\* loop in full is explored by SpecRequest and SpecPaginate
Invocations ==
    { o \in [command : Commands, tokenStdin : BOOLEAN, stdinDash : BOOLEAN,
             configOk : BOOLEAN, token : BOOLEAN, retries : RetriesValues,
             ndjson : BOOLEAN, outputFile : {"none", "writable", "unwritable"},
             path : SamplePaths] :
        /\ o.command # "request" => o.path = UsersPath
        /\ o.command = "users list --all" => ~o.stdinDash
        /\ o.command = "users list --all" => o.retries \in {0, 1}
        /\ o.command = "local" => o.retries = 0 }

\* an invocation in which nothing but the request engine or the pagination engine
\* is looked at
PlainInvocation(command, path, retries, ndjson) ==
    [command |-> command, tokenStdin |-> FALSE, stdinDash |-> FALSE, configOk |-> TRUE,
     token |-> TRUE, retries |-> retries, ndjson |-> ndjson, outputFile |-> "none",
     path |-> path]

RequestIdle ==
    /\ rqPc = "idle"
    /\ rqOpts = NoRequest
    /\ attempt = 0
    /\ lastError = NoError
    /\ outcomes = <<>>
    /\ slept = <<>>
    /\ rqResult = NoResult

PaginateIdle ==
    /\ pgPc = "idle"
    /\ pgNdjson = FALSE
    /\ cursor = Null
    /\ total = 0
    /\ all = <<>>
    /\ cursorLog = <<>>
    /\ served = <<>>
    /\ pgResult = NoResult

HarnessStart ==
    /\ hErr = NoError
    /\ hResult = [data |-> [value |-> "none"], exitCode |-> NoExitCode]
    /\ stdout = <<>>
    /\ stderr = <<>>
    /\ outFile = <<>>
    /\ exitCode = NoExitCode

HarnessIdle ==
    /\ hPc = "idle"
    /\ HarnessStart

\* no registry call recorded, no configuration resolved
NoCall == [fn |-> "none", op |-> NoReceipt, before |-> <<>>, at |-> 0, result |-> <<>>]
NoCtx == [pc |-> "idle"]

OpsIdle ==
    /\ opsFile = <<>>
    /\ now = NowStart
    /\ proc = [p \in Procs |-> NoProc]
    /\ regCall = NoCall
    /\ ctx = NoCtx

\* one invocation of the CLI that reaches runAction
Init ==
    /\ hPc = "start"
    /\ opts \in Invocations
    /\ HarnessStart
    /\ RequestIdle
    /\ PaginateIdle
    /\ OpsIdle

Next == NextHarness \/ NextPaginate \/ NextRequest

Spec == Init /\ [][Next]_vars

(***************************************************************************)
(* SpecRun: run() from program.parseAsync on.  Parsing either runs the     *)
(* action of the command (runAction) or throws a CommanderError, for which *)
(* run() calls handleError("notion", cliError, Date.now(), {}).            *)
(***************************************************************************)
\* new CliError("INVALID_ARGUMENT", error.message, {recoverable: true})
ParseError ==
    CliError("INVALID_ARGUMENT", "error: required option not specified", TRUE, 0, 0)

\* what handleError gets from run(): the command "notion" and the options {}; the
\* config file on disk stays what it is
ParseFailureOptions(o) ==
    [PlainInvocation("notion", o.path, o.retries, FALSE) EXCEPT !.configOk = o.configOk]

\* await program.parseAsync(process.argv) and the catch block of run()
RunParse ==
    /\ hPc = "parse"
    /\ \/ /\ hPc' = "start"
          /\ UNCHANGED <<opts, hErr>>
       \/ /\ hPc' = "handleError"
          /\ hErr' = ParseError
          /\ opts' = ParseFailureOptions(opts)
    /\ UNCHANGED <<hResult, stdout, stderr, outFile, exitCode>>
    /\ UNCHANGED <<rqVars, pgVars>>
    /\ UNCHANGED opVars

InitRun ==
    /\ hPc = "parse"
    /\ opts \in Invocations
    /\ HarnessStart
    /\ RequestIdle
    /\ PaginateIdle
    /\ OpsIdle

NextRun == RunParse \/ Next

SpecRun == InitRun /\ [][NextRun]_vars

(***************************************************************************)
(* SpecRequest: one call of request(), for every sample path, every value  *)
(* of retries and both kinds of endpoint.                                  *)
(***************************************************************************)
InitRequest ==
    /\ rqPc = "validate"
    /\ rqOpts \in [path : SamplePaths, retries : RetriesValues,
                   endpoint : {"object", "list"}]
    /\ attempt = 0
    /\ lastError = NoError
    /\ outcomes = <<>>
    /\ slept = <<>>
    /\ rqResult = NoResult
    /\ opts = PlainInvocation("request", rqOpts.path, rqOpts.retries, FALSE)
    /\ HarnessIdle
    /\ PaginateIdle
    /\ OpsIdle

SpecRequest == InitRequest /\ [][NextRequest]_vars

(***************************************************************************)
(* SpecPaginate: one call of paginateAll() with the fetchPage closure of   *)
(* the list commands, in both modes.                                       *)
(***************************************************************************)
\* --retries of a paginated listing: the attempt loop is skipped, runs once, or
\* retries once per page; deeper retry sequences are explored under SpecRequest
PaginateRetries == {-1, 0, 1}

InitPaginate ==
    /\ pgPc = "fetch"
    /\ \E path \in {UsersPath, <<"/", ".", ".", "/", "x">>},
          retries \in PaginateRetries, ndjson \in BOOLEAN :
         /\ opts = PlainInvocation("users list --all", path, retries, ndjson)
         /\ pgNdjson = ndjson
    /\ cursor = Null
    /\ total = 0
    /\ all = <<>>
    /\ cursorLog = <<>>
    /\ served = <<>>
    /\ pgResult = NoResult
    /\ HarnessIdle
    /\ RequestIdle
    /\ OpsIdle

NextPaginateAll == NextPaginate \/ NextRequest

SpecPaginate == InitPaginate /\ [][NextPaginateAll]_vars

\* the event loop runs every continuation that is ready
FairPaginate == SpecPaginate /\ WF_vars(NextPaginateAll)

(***************************************************************************)
(* SpecPath: request() on every path made of at most MaxPieces pieces.     *)
(***************************************************************************)
Pieces ==
    { <<"/">>, <<".">>, <<".", ".">>, <<"x">>, <<"%">>, <<"2", "e">>,
      <<"%", "2", "e">>, <<"%", "2", "E">>, <<"%", "2", "f">>, <<"%", "2", "F">>,
      <<"%", "2", "5">>, <<"%", "f", "f">> }

RECURSIVE PathsOf(_)
PathsOf(n) ==
    IF n = 0 THEN {<<>>}
    ELSE LET shorter == PathsOf(n - 1)
         IN  shorter \cup { p \o q : p \in shorter, q \in Pieces }

InitPath ==
    /\ rqPc = "validate"
    /\ rqOpts \in [path : PathsOf(MaxPieces), retries : {0}, endpoint : {"object"}]
    /\ attempt = 0
    /\ lastError = NoError
    /\ outcomes = <<>>
    /\ slept = <<>>
    /\ rqResult = NoResult
    /\ opts = PlainInvocation("request", rqOpts.path, rqOpts.retries, FALSE)
    /\ HarnessIdle
    /\ PaginateIdle
    /\ OpsIdle

SpecPath == InitPath /\ [][NextRequest]_vars

(***************************************************************************)
(* SpecRegistry: one process calls appendOp, updateOp and readOps one      *)
(* after the other while time passes; regCall records the last call.       *)
(***************************************************************************)
StoredIds(file) == { readOps(file)[i].op_id : i \in 1..Len(file) }

\* crypto.randomUUID(): an identifier no stored receipt has
randomUUID(file) ==
    IF "X" \notin StoredIds(file) THEN "X"
    ELSE IF "Y" \notin StoredIds(file) THEN "Y" ELSE "Z"

\* the patches callers pass to touchOp
SamplePatches ==
    { CompletedPatch([data |-> ObjectBody]),
      PollFailedPatch(CliError("INTERNAL_ERROR", "HTTP 500", TRUE, 500, 0)) }

\* the receipts a caller can pass to updateOp: a touched copy of a stored receipt
\* that is not terminal (file-uploads send touches its IN_PROGRESS receipt, ops wait
\* the receipt it found non-terminal), or of one that is no longer stored
Updates(file, t) ==
    { touchOp(base, patch, t) :
        base \in { op \in { readOps(file)[i] : i \in 1..Len(file) } :
                     ~IsTerminal(op.status) }
                 \cup { SendReceipt("u", randomUUID(file), 0) },
        patch \in SamplePatches }

RegistryAppend ==
    /\ Len(cleanupOps(readOps(opsFile), now)) < MaxStored
    /\ StoredIds(opsFile) # OpIds
    /\ LET r == SendReceipt("u", randomUUID(opsFile), now)
       IN  /\ opsFile' = writeOps(appendOp(readOps(opsFile), r, now))
           /\ regCall' = [fn |-> "appendOp", op |-> r, before |-> readOps(opsFile),
                          at |-> now, result |-> readOps(opsFile')]
    /\ UNCHANGED <<now, proc, ctx>>
    /\ UNCHANGED <<rqVars, pgVars, hVars>>

RegistryUpdate ==
    /\ \E u \in Updates(opsFile, now) :
         /\ opsFile' = writeOps(updateOp(readOps(opsFile), u, now))
         /\ regCall' = [fn |-> "updateOp", op |-> u, before |-> readOps(opsFile),
                        at |-> now, result |-> readOps(opsFile')]
    /\ UNCHANGED <<now, proc, ctx>>
    /\ UNCHANGED <<rqVars, pgVars, hVars>>

RegistryRead ==
    /\ regCall' = [fn |-> "readOps", op |-> NoReceipt, before |-> readOps(opsFile),
                   at |-> now, result |-> readOps(opsFile)]
    /\ UNCHANGED <<opsFile, now, proc, ctx>>
    /\ UNCHANGED <<rqVars, pgVars, hVars>>

InitRegistry ==
    /\ OpsIdle
    /\ opts = PlainInvocation("ops get", UsersPath, 0, FALSE)
    /\ HarnessIdle
    /\ RequestIdle
    /\ PaginateIdle

NextRegistry == RegistryAppend \/ RegistryUpdate \/ RegistryRead \/ Tick

SpecRegistry == InitRegistry /\ [][NextRegistry]_vars

(***************************************************************************)
(* SpecOps: one invocation of ops get, ops wait, file-uploads send,         *)
(* comments create or pages get, from runAction to process.exit.  Next to ops wait a    *)
(* second process may run file-uploads send --async on the same registry   *)
(* file.  The file holds what earlier invocations left there.              *)
(***************************************************************************)
\* the receipts earlier invocations left under op_id X at clock value t: the one
\* file-uploads send --async appends, that one completed, that one failed by a
\* poll, and one without a poll descriptor
StoredX(t) ==
    { SendReceipt("u", "X", t),
      touchOp(SendReceipt("u", "X", t), CompletedPatch([data |-> ObjectBody]), t),
      touchOp(SendReceipt("u", "X", t),
              PollFailedPatch(CliError("INTERNAL_ERROR", "HTTP 500", TRUE, 500, 0)), t),
      createReceipt([type |-> "operation"], "X", t) }

\* a receipt of another operation, stored before X
Bystander == SendReceipt("v", "Y", NowStart - 1)

\* updated_at of a stored receipt: before the retention window, or inside it
StoredAt == {0, NowStart - 1}

FilesWithX ==
    { writeOps(pre \o <<x>>) :
        pre \in {<<>>, <<Bystander>>}, x \in UNION { StoredX(t) : t \in StoredAt } }
FilesWithoutX == { writeOps(<<>>), writeOps(<<Bystander>>) }

OpsInvocation(command, token, outputFile) ==
    [PlainInvocation(command, UsersPath, 0, FALSE) EXCEPT
        !.token = token, !.outputFile = outputFile]

Handler(command, args) == [NoProc EXCEPT !.cmd = command, !.args = args]

\* argument lists
WaitArgs == { [NoArgs EXCEPT !.id = id, !.timeout = timeout] :
                id \in {"X"}, timeout \in 0..MaxTimeout }
                \cup { NoArgs }
GetArgs == { [NoArgs EXCEPT !.id = id] : id \in {"X", "Z", ""} }
SendArgs ==
    { [NoArgs EXCEPT !.id = id, !.async = async, !.dryRun = dryRun, !.fileOk = fileOk,
                     !.uuid = "Z"] :
        id \in {"u", ""}, async \in BOOLEAN, dryRun \in BOOLEAN, fileOk \in BOOLEAN }
CreateArgs ==
    { [NoArgs EXCEPT !.input = input, !.dryRun = dryRun] :
        input \in {"valid", "malformed", "invalid"}, dryRun \in BOOLEAN }
PagesGetArgs == { [NoArgs EXCEPT !.id = id] : id \in {"p", ""} }

\* the second process: file-uploads send --async whose receipt gets op_id X
PeerSender ==
    Handler("file-uploads send", [NoArgs EXCEPT !.id = "u", !.async = TRUE, !.uuid = "X"])

InitOps ==
    /\ hPc = "start"
    /\ HarnessStart
    /\ RequestIdle
    /\ PaginateIdle
    /\ now = NowStart
    /\ regCall = NoCall
    /\ ctx = NoCtx
    /\ \/ /\ opts = OpsInvocation("ops wait", TRUE, "none")
          /\ \E args \in WaitArgs :
               \/ /\ opsFile \in FilesWithX \cup FilesWithoutX
                  /\ proc = [p \in Procs |->
                               IF p = "main" THEN Handler("ops wait", args) ELSE NoProc]
               \/ /\ opsFile = writeOps(<<>>)
                  /\ args.id = "X"
                  /\ proc = [p \in Procs |->
                               IF p = "main" THEN Handler("ops wait", args)
                               ELSE [PeerSender EXCEPT !.pc = "start"]]
       \/ /\ opts = OpsInvocation("ops get", TRUE, "none")
          /\ opsFile \in FilesWithX \cup FilesWithoutX
          /\ \E args \in GetArgs :
               proc = [p \in Procs |->
                         IF p = "main" THEN Handler("ops get", args) ELSE NoProc]
       \/ /\ \E token \in BOOLEAN, outputFile \in {"none", "unwritable"} :
               opts = OpsInvocation("file-uploads send", token, outputFile)
          /\ opsFile \in FilesWithoutX
          /\ \E args \in SendArgs :
               proc = [p \in Procs |->
                         IF p = "main" THEN Handler("file-uploads send", args) ELSE NoProc]
       \/ /\ \E token \in BOOLEAN, outputFile \in {"none", "unwritable"} :
               opts = OpsInvocation("comments create", token, outputFile)
          /\ opsFile \in FilesWithoutX
          /\ \E args \in CreateArgs :
               proc = [p \in Procs |->
                         IF p = "main" THEN Handler("comments create", args) ELSE NoProc]
       \/ /\ \E token \in BOOLEAN, outputFile \in {"none", "unwritable"} :
               opts = OpsInvocation("pages get", token, outputFile)
          /\ opsFile \in FilesWithoutX
          /\ \E args \in PagesGetArgs :
               proc = [p \in Procs |->
                         IF p = "main" THEN Handler("pages get", args) ELSE NoProc]

NextOpsHarness ==
    \/ RunActionStart
    \/ RunActionResolve
    \/ HandlerOpsCall
    \/ HandlerOpsDone
    \/ RunActionEmit
    \/ HandleError

\* time passes while the invocation awaits request() (and while it sleeps, see
\* WaitSleep); the file operations take no tick
RequestTakesTime ==
    /\ proc["main"].pc = "request"
    /\ Tick

NextOps ==
    \/ NextOpsHarness
    \/ OpsGet
    \/ NextWait
    \/ NextSend
    \/ NextCreate
    \/ NextPagesGet
    \/ NextRequest
    \/ RequestTakesTime

SpecOps == InitOps /\ [][NextOps]_vars

\* the event loop runs every continuation that is ready, and timers fire
FairOps == SpecOps /\ WF_vars(NextOps)

(***************************************************************************)
(* SpecConfig: resolveContext and resolveConfig on the options the parser  *)
(* hands to runAction, the piped token, the environment and the profile.   *)
(* undefined is Null for strings and Undef for numbers.                    *)
(***************************************************************************)
Undef == -1

DEFAULT_NOTION_VERSION == "2025-09-03"
DEFAULT_TIMEOUT_MS == 30000
DEFAULT_RETRIES == 3

\* a ?? b
Coalesce(a, b) == IF a = Null THEN b ELSE a
CoalesceNum(a, b) == IF a = Undef THEN b ELSE a

\* Number(value) of the strings the environment holds here
Number(str) ==
    CASE str = "2000" -> 2000
      [] str = "0" -> 0
      [] str = "7" -> 7
      [] OTHER -> Undef

\* process.env.NAME ? Number(process.env.NAME) : undefined
EnvNumber(str) == IF Falsy(str) THEN Undef ELSE Number(str)

\* process.env.NOTION_PRETTY ? process.env.NOTION_PRETTY === "1" : undefined
EnvPretty(str) == IF Falsy(str) THEN Null ELSE IF str = "1" THEN "true" ELSE "false"

NoSource == [token |-> Null, notionVersion |-> Null, timeout |-> Undef,
             retries |-> Undef, pretty |-> Null]

\* the flags on the command line
FlagSets ==
    { [token |-> token, notionVersion |-> rest.notionVersion, timeout |-> timeout,
       retries |-> rest.retries, pretty |-> rest.pretty] :
        token \in {Null, "flag-token"}, timeout \in {Undef, 5},
        rest \in { NoSource,
                   [NoSource EXCEPT !.notionVersion = "flag-version", !.retries = 1,
                                    !.pretty = "true"] } }

\* --token-stdin and what is piped in: not given, given with nothing piped, given
\* with a token
StdinSets ==
    { [tokenStdin |-> FALSE, piped |-> ""], [tokenStdin |-> TRUE, piped |-> ""],
      [tokenStdin |-> TRUE, piped |-> "stdin-token"] }

\* NOTION_TOKEN, NOTION_VERSION, NOTION_TIMEOUT, NOTION_RETRIES, NOTION_PRETTY
EnvSets ==
    { [token |-> token, notionVersion |-> rest.notionVersion, timeout |-> timeout,
       retries |-> rest.retries, pretty |-> rest.pretty] :
        token \in {Null, "env-token"}, timeout \in {Null, "", "2000", "0"},
        rest \in { [notionVersion |-> Null, retries |-> Null, pretty |-> Null],
                   [notionVersion |-> "env-version", retries |-> "7", pretty |-> "1"],
                   [notionVersion |-> "env-version", retries |-> "7", pretty |-> "0"] } }

\* the active profile of the config file: none, one with every field, one with the
\* token and the timeout only
ProfileSets ==
    { NoSource,
      [token |-> "profile-token", notionVersion |-> "profile-version",
       timeout |-> 9000, retries |-> 2, pretty |-> "true"],
      [NoSource EXCEPT !.token = "profile-token", !.timeout = 9000] }

ConfigCommands == {"users list", "ops wait"}

\* the options object of the action: the flags, and for ops wait its own
\* --timeout <sec> with the default 60
OptionsOf(command, flags) ==
    IF command = "ops wait" /\ flags.timeout = Undef
    THEN [flags EXCEPT !.timeout = 60]
    ELSE flags

\* resolveContext: stdinToken = (await readStdin()).trim() || null
StdinToken(stdin) == IF stdin.tokenStdin /\ stdin.piped # "" THEN stdin.piped ELSE Null

\* options.token ?? options.stdinToken ?? process.env.NOTION_TOKEN ?? profile?.token
ResolveToken(options, stdinToken, env, profile) ==
    Coalesce(options.token, Coalesce(stdinToken, Coalesce(env.token, profile.token)))

resolveConfig(options, stdinToken, env, profile) ==
    [token |-> ResolveToken(options, stdinToken, env, profile),
     notionVersion |->
        Coalesce(options.notionVersion,
            Coalesce(env.notionVersion,
                Coalesce(profile.notionVersion, DEFAULT_NOTION_VERSION))),
     timeoutMs |->
        CoalesceNum(options.timeout,
            CoalesceNum(EnvNumber(env.timeout),
                CoalesceNum(profile.timeout, DEFAULT_TIMEOUT_MS))),
     retries |->
        CoalesceNum(options.retries,
            CoalesceNum(EnvNumber(env.retries),
                CoalesceNum(profile.retries, DEFAULT_RETRIES))),
     pretty |->
        Coalesce(options.pretty,
            Coalesce(EnvPretty(env.pretty), Coalesce(profile.pretty, "false")))]

\* an environment in which no variable is set
NoEnv == [token |-> Null, notionVersion |-> Null, timeout |-> Null, retries |-> Null,
          pretty |-> Null]

NoConfig == resolveConfig(NoSource, Null, NoEnv, NoSource)

\* the parser runs the action with its options
ParseOptions ==
    /\ ctx.pc = "parse"
    /\ ctx' = [ctx EXCEPT !.pc = "resolve", !.options = OptionsOf(ctx.command, ctx.flags)]
    /\ UNCHANGED <<opsFile, now, proc, regCall>>
    /\ UNCHANGED <<rqVars, pgVars, hVars>>

\* resolveContext(command, options)
ResolveContext ==
    /\ ctx.pc = "resolve"
    /\ ctx' = [ctx EXCEPT !.pc = "resolved",
                          !.config = resolveConfig(ctx.options, StdinToken(ctx.stdin),
                                                   ctx.env, ctx.profile)]
    /\ UNCHANGED <<opsFile, now, proc, regCall>>
    /\ UNCHANGED <<rqVars, pgVars, hVars>>

InitConfig ==
    /\ ctx \in [pc : {"parse"}, command : ConfigCommands, flags : FlagSets,
                stdin : StdinSets, env : EnvSets, profile : ProfileSets,
                options : {NoSource}, config : {NoConfig}]
    /\ opsFile = <<>>
    /\ now = NowStart
    /\ proc = [p \in Procs |-> NoProc]
    /\ regCall = NoCall
    /\ opts = PlainInvocation("local", UsersPath, 0, FALSE)
    /\ HarnessIdle
    /\ RequestIdle
    /\ PaginateIdle

NextConfig == ParseOptions \/ ResolveContext

SpecConfig == InitConfig /\ [][NextConfig]_vars

(***************************************************************************)
(* SpecEmit: emitOutput(ctx, envelope) on success and error envelopes, at  *)
(* the level of the text written.  A text is a sequence of pieces: the     *)
(* JSON serialisation of a value with an indentation, or a line feed.      *)
(***************************************************************************)
\* JSON.stringify(value, null, space); JSON.stringify(value) is space 0
Stringify(value, space) == <<[piece |-> "json", value |-> value, space |-> space]>>
LineFeed == <<[piece |-> "lf"]>>

\* writeJson(value, pretty): what it writes to process.stdout
writeJson(value, pretty) ==
    (IF pretty THEN Stringify(value, 2) ELSE Stringify(value, 0)) \o LineFeed

\* mutant: the file is never indented
FileSpaceMut(pretty) == 0

\* ctx.pretty ? 2 : 0
FileSpace(pretty) == IF pretty THEN 2 ELSE 0

\* the envelopes runAction and handleError pass to emitOutput
EmitEnvelopes ==
    { SuccessEnvelope(c, d) : c \in {"users get", "pages get"},
                              d \in {ObjectBody, DryRunData} }
    \cup { ErrorEnvelope(c, CliError(code, "failed", code \in {"TIMEOUT"}, 0, 0)) :
             c \in {"users get", "notion"}, code \in ErrorCodes }

\* emitOutput: writeJson(envelope, ctx.pretty)
EmitOutputStdout ==
    /\ ctx.pc = "writeJson"
    /\ ctx' = [ctx EXCEPT !.out = ctx.out \o writeJson(ctx.envelope, ctx.pretty),
                          !.pc = IF ctx.outputFile = "none" THEN "done" ELSE "writeFile"]
    /\ UNCHANGED <<opsFile, now, proc, regCall>>
    /\ UNCHANGED <<rqVars, pgVars, hVars>>

\* emitOutput: await fs.writeFile(ctx.outputFile, JSON.stringify(envelope, null,
\* ctx.pretty ? 2 : 0), "utf8"), which replaces the file or rejects
EmitOutputFile ==
    /\ ctx.pc = "writeFile"
    /\ ctx' = IF ctx.outputFile = "unwritable"
              THEN [ctx EXCEPT !.pc = "rejected"]
              ELSE [ctx EXCEPT !.file = Stringify(ctx.envelope, FileSpace(ctx.pretty)),
                               !.pc = "done"]
    /\ UNCHANGED <<opsFile, now, proc, regCall>>
    /\ UNCHANGED <<rqVars, pgVars, hVars>>

InitEmit ==
    /\ ctx \in [pc : {"writeJson"}, envelope : EmitEnvelopes, pretty : BOOLEAN,
                outputFile : {"none", "writable", "unwritable"}, out : {<<>>},
                file : {<<>>}]
    /\ opsFile = <<>>
    /\ now = NowStart
    /\ proc = [p \in Procs |-> NoProc]
    /\ regCall = NoCall
    /\ opts = PlainInvocation("local", UsersPath, 0, FALSE)
    /\ HarnessIdle
    /\ RequestIdle
    /\ PaginateIdle

NextEmit == EmitOutputStdout \/ EmitOutputFile

SpecEmit == InitEmit /\ [][NextEmit]_vars

(***************************************************************************)
(* Properties.                                                             *)
(***************************************************************************)
Last(seq) == seq[Len(seq)]

RECURSIVE CountLines(_, _)
CountLines(lines, type) ==
    IF lines = <<>> THEN 0
    ELSE (IF Head(lines).type = type THEN 1 ELSE 0) + CountLines(Tail(lines), type)

RECURSIVE Flatten(_)
Flatten(pages) ==
    IF pages = <<>> THEN <<>> ELSE Head(pages).results \o Flatten(Tail(pages))

Is429(o) == o.kind = "response" /\ o.status = 429
IsAbort(o) == o.kind = "abort"
RequestOver == rqPc \in {"returned", "thrown"}

\* C1: every invocation that goes through runAction has written exactly one
\* Envelope to stdout when the process exits, or, when the result was streamed,
\* no Envelope and one summary line as the last line: never zero, never two.
C1_ExactlyOneEnvelope ==
    hPc = "exited" =>
        \/ CountLines(stdout, "envelope") = 1
        \/ /\ CountLines(stdout, "envelope") = 0
           /\ CountLines(stdout, "summary") = 1
           /\ Last(stdout).type = "summary"

\* the exit code the claim C2 gives for an error code
ClaimedExit(code) ==
    CASE code \in {"INVALID_ARGUMENT", "MISSING_ARGUMENT"} -> 2
      [] code = "RESOURCE_NOT_FOUND" -> 4
      [] code = "CONFLICT"           -> 5
      [] code = "AUTH_FAILED"        -> 10
      [] code = "PERMISSION_DENIED"  -> 11
      [] code = "RATE_LIMITED"       -> 12
      [] code = "TIMEOUT"            -> 20
      [] code = "DEPENDENCY_MISSING" -> 30
      [] code = "INTERNAL_ERROR"     -> 125
      [] OTHER                       -> 1

\* C2: on the failure path the exit code is a function of the error only, the
\* table value of a CliError's code and 125 for a failure that is no CliError; on
\* the success path it is the handler's override or 0.
C2_ExitCodeFromError ==
    hPc = "exited" =>
        IF hErr.kind = "none"
        THEN exitCode = (IF hResult.exitCode # NoExitCode THEN hResult.exitCode ELSE 0)
        ELSE IF hErr.kind = "CliError"
             THEN exitCode = ClaimedExit(hErr.code)
             ELSE exitCode = 125

\* C3: with retries = N >= 0 request() makes at most N+1 physical attempts, and
\* when every attempt answers 429 it makes exactly N+1 and fails with RATE_LIMITED.
C3_RetryBound ==
    rqOpts.retries >= 0 =>
        /\ attempt <= rqOpts.retries + 1
        /\ Len(outcomes) <= rqOpts.retries + 1
        /\ (RequestOver /\ outcomes # <<>>
              /\ \A i \in 1..Len(outcomes) : Is429(outcomes[i]))
           => /\ Len(outcomes) = rqOpts.retries + 1
              /\ rqPc = "thrown"
              /\ rqResult.kind = "CliError"
              /\ rqResult.code = "RATE_LIMITED"

C3_Witness ==
    /\ rqPc = "thrown"
    /\ rqOpts.retries = 2
    /\ Len(outcomes) = 3
    /\ \A i \in 1..3 : Is429(outcomes[i])
    /\ rqResult.code = "RATE_LIMITED"

\* C4: with retries = N, k <= N timed-out attempts followed by a 2xx answer make
\* request() return that response; N+1 timed-out attempts make it throw the
\* TIMEOUT error of the last attempt, and fewer do not end the call.
C4_TimeoutRetry ==
    (rqOpts.retries >= 0 /\ outcomes # <<>>
       /\ \A i \in 1..(Len(outcomes) - 1) : IsAbort(outcomes[i]))
    => LET last == Last(outcomes)
       IN  /\ (last.kind = "response" /\ Is2xx(last.status))
              => /\ rqPc = "returned"
                 /\ rqResult = [kind |-> "response", status |-> last.status,
                                data |-> last.data]
           /\ (IsAbort(last) /\ Len(outcomes) = rqOpts.retries + 1)
              => /\ rqPc = "thrown"
                 /\ rqResult.kind = "CliError"
                 /\ rqResult.code = "TIMEOUT"
                 /\ rqResult.at = Len(outcomes)
           /\ (IsAbort(last) /\ Len(outcomes) <= rqOpts.retries)
              => rqPc = "fetching"

C4_Witness ==
    /\ rqPc = "returned"
    /\ rqOpts.retries = 2
    /\ Len(outcomes) = 3
    /\ IsAbort(outcomes[1])
    /\ IsAbort(outcomes[2])
    /\ rqResult.status = 200

\* the outcome of attempt i was followed by another attempt
Retried(i) == i \in 1..Len(outcomes) /\ attempt > i

\* C5 as claimed: the only outcomes that lead to another attempt are an HTTP 429
\* response and a timeout of the attempt itself.
C5_OnlyRateLimitAndTimeoutRetried ==
    \A i \in 1..Len(outcomes) :
        Retried(i) => (Is429(outcomes[i]) \/ IsAbort(outcomes[i]))

\* C5 as amended: the outcomes that lead to another attempt are an HTTP 429
\* response, a timeout of the attempt, an HTTP 408 response and an error of the
\* attempt that is not a CliError; every other non-2xx status gets exactly one
\* attempt and is surfaced at once with its mapped code, whatever retries is.
C5_RetriedOutcomes ==
    \A i \in 1..Len(outcomes) :
        LET o == outcomes[i]
        IN  /\ Retried(i) =>
                \/ Is429(o)
                \/ IsAbort(o)
                \/ (o.kind = "response" /\ o.status = 408)
                \/ o.kind = "error"
            /\ (o.kind = "response" /\ ~Is2xx(o.status) /\ o.status \notin {429, 408})
               => /\ i = Len(outcomes)
                  /\ attempt = i
                  /\ rqPc = "thrown"
                  /\ rqResult.kind = "CliError"
                  /\ rqResult.status = o.status
                  /\ rqResult.at = i

C5_Witness ==
    /\ rqPc = "thrown"
    /\ rqOpts.retries = 2
    /\ Len(outcomes) = 2
    /\ outcomes[1].kind = "response" /\ outcomes[1].status = 408
    /\ outcomes[2].kind = "response" /\ outcomes[2].status = 500
    /\ rqResult.code = "INTERNAL_ERROR"

\* a traversal sequence of claim C6 starts at position i of path p: two dots, each
\* written "." or "%2e", followed by a slash written "/" or "%2f", in any letter case
DotAt(p, i) ==
    IF i <= Len(p) /\ p[i] = "." THEN 1
    ELSE IF i + 2 <= Len(p) /\ p[i] = "%" /\ p[i + 1] = "2" /\ p[i + 2] \in {"e", "E"}
         THEN 3 ELSE 0
SlashAt(p, i) ==
    \/ i <= Len(p) /\ p[i] = "/"
    \/ i + 2 <= Len(p) /\ p[i] = "%" /\ p[i + 1] = "2" /\ p[i + 2] \in {"f", "F"}
TraversalAt(p, i) ==
    /\ DotAt(p, i) > 0
    /\ DotAt(p, i + DotAt(p, i)) > 0
    /\ SlashAt(p, i + DotAt(p, i) + DotAt(p, i + DotAt(p, i)))
HasTraversal(p) == \E i \in 1..Len(p) : TraversalAt(p, i)

\* C6: for every path that contains "../", "..%2f" or a percent-encoded traversal
\* sequence in any letter case, request() fails with INVALID_ARGUMENT and makes no
\* physical attempt.
C6_TraversalRejected ==
    (rqPc # "validate" /\ HasTraversal(rqOpts.path)) =>
        /\ rqPc = "thrown"
        /\ rqResult.kind = "CliError"
        /\ rqResult.code = "INVALID_ARGUMENT"
        /\ attempt = 0
        /\ outcomes = <<>>

\* the part of C6 the code keeps: no physical attempt for such a path
C6_NoAttemptOnTraversal ==
    (rqPc # "validate" /\ HasTraversal(rqOpts.path)) =>
        /\ rqPc = "thrown"
        /\ attempt = 0
        /\ outcomes = <<>>

\* the reference mapping of claim C7
ClaimedCode(status) ==
    CASE status = 400 -> "INVALID_ARGUMENT"
      [] status = 401 -> "AUTH_FAILED"
      [] status = 403 -> "PERMISSION_DENIED"
      [] status = 404 -> "RESOURCE_NOT_FOUND"
      [] status = 409 -> "CONFLICT"
      [] status = 412 -> "PRECONDITION_FAILED"
      [] status = 429 -> "RATE_LIMITED"
      [] status = 408 -> "TIMEOUT"
      [] OTHER        -> "INTERNAL_ERROR"

\* C7: a non-2xx status surfaced by request() carries the code of the reference
\* mapping, and a 2xx status returns the body with no error.
C7_StatusMapping ==
    (RequestOver /\ outcomes # <<>> /\ Last(outcomes).kind = "response") =>
        LET last == Last(outcomes)
        IN  IF Is2xx(last.status)
            THEN /\ rqPc = "returned"
                 /\ rqResult.kind = "response"
                 /\ rqResult.data = last.data
            ELSE /\ rqPc = "thrown"
                 /\ rqResult.kind = "CliError"
                 /\ rqResult.status = last.status
                 /\ rqResult.code = ClaimedCode(last.status)

C7_Witness ==
    /\ rqPc = "thrown"
    /\ outcomes # <<>>
    /\ Last(outcomes).kind = "response"
    /\ Last(outcomes).status = 412
    /\ rqResult.code = "PRECONDITION_FAILED"

\* C8: a request that receives HTTP 404 with body {"message": "not found"} ends
\* the invocation with an error envelope of code RESOURCE_NOT_FOUND and
\* recoverable true, and with exit code 4.
C8_NotFoundScenario ==
    (hPc = "exited" /\ hErr.kind = "CliError" /\ hErr.status = 404
       /\ hErr.message = "not found")
    => /\ stdout # <<>>
       /\ Last(stdout).type = "envelope"
       /\ Last(stdout).status = "error"
       /\ Last(stdout).error.code = "RESOURCE_NOT_FOUND"
       /\ Last(stdout).error.recoverable = TRUE
       /\ exitCode = 4

\* C9: non-streaming paginateAll calls fetchPage one at a time, first with null and
\* then with the next_cursor of the page just received, it terminates, and it
\* returns the concatenation of the fetched pages in page order with total equal
\* to the sum of the page lengths.
C9_Sequential ==
    ~pgNdjson =>
        /\ Len(cursorLog) = Len(served) + (IF pgPc \in {"await", "thrown"} THEN 1 ELSE 0)
        /\ \A i \in 1..Len(cursorLog) :
             cursorLog[i] = IF i = 1 THEN Null ELSE served[i - 1].next_cursor
        /\ pgPc = "returned"
           => /\ pgResult.kind = "value"
              /\ pgResult.results = Flatten(served)
              /\ pgResult.total = SumLen(served)
              /\ stdout = <<>>

C9_Pagination ==
    /\ [] C9_Sequential
    /\ (~pgNdjson /\ pgPc = "fetch") ~> (pgPc \in {"returned", "thrown"})

C9_Witness ==
    /\ ~pgNdjson
    /\ pgPc = "returned"
    /\ Len(served) = 2
    /\ served[1].next_cursor = CursorOf(1)
    /\ cursorLog = <<Null, CursorOf(1)>>
    /\ pgResult.results = <<1, 2, 3>>
    /\ pgResult.total = 3

\* what non-streaming mode accumulates for a sequence of pages
RECURSIVE AccumulateAll(_, _)
AccumulateAll(pages, acc) ==
    IF pages = <<>> THEN acc
    ELSE AccumulateAll(Tail(pages), PushAll(acc, Head(pages).results))

\* C10: for the same pages, streaming mode writes one item line per result in the
\* order in which non-streaming mode accumulates them, then exactly one summary
\* line whose count is non-streaming mode's total; it returns null and
\* accumulates nothing.
C10_StreamingEquivalence ==
    pgNdjson =>
        LET acc == AccumulateAll(served, <<>>)
        IN  /\ all = <<>>
            /\ pgPc # "returned"
               => stdout = [i \in 1..Len(acc) |-> ItemLine(acc[i])]
            /\ pgPc = "returned"
               => /\ stdout = [i \in 1..Len(acc) |-> ItemLine(acc[i])]
                               \o <<SummaryLine(Len(acc))>>
                  /\ pgResult = [kind |-> "null"]

C10_Witness ==
    /\ pgNdjson
    /\ pgPc = "returned"
    /\ Len(served) = 2
    /\ stdout = <<ItemLine(1), ItemLine(2), ItemLine(3), SummaryLine(3)>>

\* C11: a streaming invocation (users list --all --ndjson) that started to
\* paginate has written, when it exits, item lines followed by exactly one summary
\* line: the summary is the last line, no Envelope is on stdout, and this is so
\* when a page fetch failed as well.
C11_StreamingLines ==
    (hPc = "exited" /\ opts.command = "users list --all" /\ opts.ndjson
        /\ cursorLog # <<>>) =>
        /\ stdout # <<>>
        /\ Last(stdout).type = "summary"
        /\ \A i \in 1..(Len(stdout) - 1) : stdout[i].type = "item"

\* the conflict of C18: --token-stdin together with a JSON input that is "-"
StdinConflict == opts.tokenStdin /\ opts.stdinDash

\* C18: with --token-stdin and a JSON input "-" the invocation ends with one error
\* Envelope INVALID_ARGUMENT on stdout and exit code 2, and neither context
\* resolution of runAction, nor the handler, nor an HTTP request has happened.
C18_TokenStdinConflict ==
    StdinConflict =>
        /\ hPc \in {"start", "handleError", "exited"}
        /\ rqPc = "idle"
        /\ pgPc = "idle"
        /\ hPc = "exited"
           => /\ Len(stdout) = 1
              /\ stdout[1].type = "envelope"
              /\ stdout[1].status = "error"
              /\ stdout[1].error.code = "INVALID_ARGUMENT"
              /\ exitCode = 2

\* C18, the part that holds: the conflict is detected before context resolution
\* and before the handler, and no HTTP request is made.
C18_DetectedFirst ==
    StdinConflict =>
        /\ hPc \in {"start", "handleError", "exited"}
        /\ rqPc = "idle"
        /\ pgPc = "idle"
        /\ hPc # "start" => (hErr.kind = "CliError" /\ hErr.code = "INVALID_ARGUMENT")


\* a receipt whose updated_at lies before the retention window that ends at t
Expired(op, t) == op.updated_at.iso + RetentionTicks < t
Unexpired(ops, t) == SelectSeq(ops, LAMBDA op : ~Expired(op, t))
Members(ops) == { ops[i] : i \in 1..Len(ops) }
Front(seq) == SubSeq(seq, 1, Len(seq) - 1)

\* C12: after appendOp(r), readOps() returns a list whose last entry equals r field for
\* field, preceded by the receipts that were stored and not expired, in their order.
C12_AppendRoundTrip ==
    regCall.fn = "appendOp" =>
        LET read == readOps(opsFile)
        IN  /\ read # <<>>
            /\ Last(read) = regCall.op
            /\ \A k \in DOMAIN regCall.op : Last(read)[k] = regCall.op[k]
            /\ SelectSeq(Front(read), LAMBDA op : op \in Members(regCall.before))
                   = Unexpired(regCall.before, regCall.at)

C12_Witness ==
    /\ regCall.fn = "appendOp"
    /\ Len(regCall.before) = 2
    /\ Expired(regCall.before[1], regCall.at)
    /\ ~Expired(regCall.before[2], regCall.at)
    /\ Len(readOps(opsFile)) = 2

\* the entry of ops with the op_id of u, when there is one
Matching(ops, u) == { i \in 1..Len(ops) : ops[i].op_id = u.op_id }
WithoutId(ops, id) == SelectSeq(ops, LAMBDA op : op.op_id # id)

\* C13: updateOp(u) changes only the stored entry with the op_id of u, which becomes u
\* with an updated_at not earlier than before; the other entries that are not expired
\* keep their content and order, nothing is added, and without a match the entries
\* that are not expired are rewritten unchanged.
C13_UpdateFrame ==
    regCall.fn = "updateOp" =>
        LET u == regCall.op
            before == regCall.before
            after == readOps(opsFile)
        IN  /\ \A i \in Matching(before, u) :
                 /\ \E j \in 1..Len(after) : after[j] = u
                 /\ u.updated_at.iso >= before[i].updated_at.iso
            /\ WithoutId(after, u.op_id) = WithoutId(Unexpired(before, regCall.at), u.op_id)
            /\ Members(after) \subseteq Members(before) \cup {u}
            /\ Matching(before, u) = {} => after = Unexpired(before, regCall.at)

\* C13 as the code has it: updateOp(u) first drops the expired entries, the one with
\* the op_id of u included, and then puts u in the place of the entry with its op_id
\* if that entry is left; the other entries that are left keep content and order.
C13_UpdatePruned ==
    regCall.fn = "updateOp" =>
        LET u == regCall.op
            left == Unexpired(regCall.before, regCall.at)
            after == readOps(opsFile)
        IN  /\ Len(after) = Len(left)
            /\ \A i \in 1..Len(left) :
                 /\ left[i].op_id = u.op_id
                      => after[i] = u /\ u.updated_at.iso >= left[i].updated_at.iso
                 /\ left[i].op_id # u.op_id => after[i] = left[i]

C13_Witness ==
    /\ regCall.fn = "updateOp"
    /\ Len(regCall.before) = 2
    /\ regCall.before[1].op_id = regCall.op.op_id
    /\ ~Expired(regCall.before[1], regCall.at)
    /\ ~Expired(regCall.before[2], regCall.at)
    /\ regCall.op.updated_at.iso > regCall.before[1].updated_at.iso
    /\ readOps(opsFile) = <<regCall.op, regCall.before[2]>>

\* C14: a receipt whose updated_at is older than the retention window is absent from
\* the list the next readOps returns and from the list the next appendOp or updateOp
\* writes.
C14_Retention ==
    regCall.fn # "none" =>
        \A i \in 1..Len(regCall.before) :
            Expired(regCall.before[i], regCall.at)
                => regCall.before[i] \notin Members(regCall.result)

TerminalStatuses == {"COMPLETED", "FAILED"}

\* the statuses the registry file holds under op_id id
StatusesOf(file, id) ==
    { readOps(file)[i].status : i \in { j \in 1..Len(file) : readOps(file)[j].op_id = id } }

\* C15: once the registry holds a receipt with status COMPLETED or FAILED, no later
\* registry state holds the same op_id with another status, whatever the interleaving
\* of file-uploads send --async and ops wait.
C15_TerminalIsFinal ==
    [][ \A id \in OpIds :
          \A st \in StatusesOf(opsFile, id) \cap TerminalStatuses :
              StatusesOf(opsFile', id) \subseteq {st} ]_vars

\* the invocation is ops wait on X with no other process, it is over, and each time
\* it looked X was stored and not terminal
WaitedOnPending ==
    /\ opts.command = "ops wait"
    /\ proc["peer"].cmd = "none"
    /\ proc["main"].args.id = "X"
    /\ hPc = "exited"
    /\ ~(hErr.kind = "CliError" /\ hErr.code = "RESOURCE_NOT_FOUND")
    /\ proc["main"].found.status \notin TerminalStatuses

TimedOut ==
    /\ exitCode = 20
    /\ Len(stdout) = 1
    /\ stdout[1].status = "error"
    /\ stdout[1].error.code = "TIMEOUT"

PollFailed ==
    /\ exitCode = 0
    /\ Len(stdout) = 1
    /\ stdout[1].status = "success"
    /\ stdout[1].data.op_id = "X"
    /\ stdout[1].data.status = "FAILED"
    /\ stdout[1].data.error.code = "POLL_FAILED"

\* C16: ops wait on a receipt that stays non-terminal and present ends with TIMEOUT
\* (exit code 20), whatever the outcomes of its polls, and in no other way.
C16_WaitTimesOut == WaitedOnPending => TimedOut

\* how a wait on a receipt that stays non-terminal and present has ended
WaitOutcome ==
    WaitedOnPending =>
        \/ /\ TimedOut
           /\ now >= proc["main"].deadline
           /\ ~proc["main"].failed
        \/ /\ PollFailed
           /\ proc["main"].failed
           /\ proc["main"].polls >= 1
           /\ proc["main"].found.poll # NullPoll
           /\ StatusesOf(opsFile, "X") \subseteq {"FAILED"}

\* C16 as the code has it: ops wait ends, and when X stays non-terminal and present
\* it ends with TIMEOUT (exit code 20) and not before its deadline, or, when a poll
\* failed, at once on the success path (exit code 0) with the receipt marked FAILED /
\* POLL_FAILED; polls that succeed and receipts without a poll descriptor do not end
\* it.
C16_WaitEnds ==
    /\ []WaitOutcome
    /\ (opts.command = "ops wait" /\ hPc = "awaitHandler") ~> (hPc = "exited")

\* a wait that timed out after a poll that succeeded
C16_Witness ==
    /\ WaitedOnPending
    /\ TimedOut
    /\ proc["main"].polls >= 1
    /\ proc["main"].args.timeout >= 1

\* while ops wait X was running and before its deadline, the other process updated
\* the stored IN_PROGRESS receipt X to COMPLETED
CompletedDuringWait ==
    /\ opts.command = "ops wait"
    /\ proc["main"].args.id = "X"
    /\ proc["peer"].wrote.fn = "updateOp"
    /\ proc["peer"].op.status = "COMPLETED"
    /\ proc["peer"].wrote.stored
    /\ proc["peer"].wrote.otherPc \in {"loop", "request", "update", "sleep"}
    /\ proc["peer"].wrote.at < proc["main"].deadline

\* C17: when another writer updates X from IN_PROGRESS to COMPLETED while ops wait X
\* runs and before its deadline, ops wait returns the COMPLETED receipt in a success
\* envelope.
C17_WaitSeesCompletion ==
    (CompletedDuringWait /\ hPc = "exited") =>
        /\ exitCode = 0
        /\ Len(stdout) = 1
        /\ stdout[1].status = "success"
        /\ stdout[1].data.op_id = "X"
        /\ stdout[1].data.status = "COMPLETED"

\* a mutation command run with --dry-run, a token, its id and well-formed input that
\* passes validation, and no output file that cannot be written
DryRunValid ==
    /\ opts.command \in {"file-uploads send", "comments create"}
    /\ proc["main"].args.dryRun
    /\ opts.token
    /\ opts.outputFile = "none"
    /\ opts.command = "file-uploads send" => proc["main"].args.id # ""
    /\ opts.command = "comments create" => proc["main"].args.input = "valid"

FromFlag == ctx.flags
FromStdin == IF ctx.stdin.tokenStdin /\ ctx.stdin.piped # "" THEN ctx.stdin.piped ELSE Null
FromEnv ==
    [token |-> ctx.env.token,
     notionVersion |-> ctx.env.notionVersion,
     timeout |-> IF ctx.env.timeout \in {Null, ""} THEN Undef
                 ELSE IF ctx.env.timeout = "2000" THEN 2000 ELSE 0,
     retries |-> IF ctx.env.retries = Null THEN Undef ELSE 7,
     pretty |-> IF ctx.env.pretty = Null THEN Null
                ELSE IF ctx.env.pretty = "1" THEN "true" ELSE "false"]
FromProfile == ctx.profile

\* the first value in the list that is supplied
FirstOf(values, none) ==
    IF \E i \in 1..Len(values) : values[i] # none
    THEN values[CHOOSE i \in 1..Len(values) :
                   /\ values[i] # none
                   /\ \A j \in 1..(i - 1) : values[j] = none]
    ELSE none

\* C20: each resolved field has the value of the highest-precedence source that
\* supplies one: flag, then the piped token, then the environment, then the profile,
\* then the built-in default.
C20_Precedence ==
    ctx.pc = "resolved" =>
        /\ ctx.config.token =
             FirstOf(<<FromFlag.token, FromStdin, FromEnv.token, FromProfile.token>>, Null)
        /\ ctx.config.notionVersion =
             FirstOf(<<FromFlag.notionVersion, FromEnv.notionVersion,
                       FromProfile.notionVersion, "2025-09-03">>, Null)
        /\ ctx.config.timeoutMs =
             FirstOf(<<FromFlag.timeout, FromEnv.timeout, FromProfile.timeout, 30000>>,
                     Undef)
        /\ ctx.config.retries =
             FirstOf(<<FromFlag.retries, FromEnv.retries, FromProfile.retries, 3>>, Undef)
        /\ ctx.config.pretty =
             FirstOf(<<FromFlag.pretty, FromEnv.pretty, FromProfile.pretty, "false">>, Null)

\* the commands of the model that call requireToken, and those that need an id
TokenCommands == {"file-uploads send", "comments create", "pages get"}
IdCommands == {"file-uploads send", "pages get"}

\* the invocation has no token / has a token and no id
NoTokenCase == opts.command \in TokenCommands /\ ~opts.token
NoIdCase == opts.command \in IdCommands /\ opts.token /\ proc["main"].args.id = ""

\* stdout holds one error envelope with this code
OneErrorEnvelope(code) ==
    /\ Len(stdout) = 1
    /\ stdout[1].type = "envelope"
    /\ stdout[1].status = "error"
    /\ stdout[1].error.code = code

\* C21: a token-requiring command without a token ends with an error envelope
\* AUTH_FAILED and exit code 10, and one with a token and without its id ends with
\* MISSING_ARGUMENT and exit code 2; in both cases no HTTP request is issued.
C21_PreconditionsFirst ==
    /\ NoTokenCase =>
          /\ rqPc = "idle" /\ outcomes = <<>>
          /\ hPc = "exited" => (OneErrorEnvelope("AUTH_FAILED") /\ exitCode = 10)
    /\ NoIdCase =>
          /\ rqPc = "idle" /\ outcomes = <<>>
          /\ hPc = "exited" => (OneErrorEnvelope("MISSING_ARGUMENT") /\ exitCode = 2)

\* C21, the part that holds: the handler throws AUTH_FAILED / MISSING_ARGUMENT before
\* any HTTP request, and that error is the one on stdout.
C21_ChecksFirst ==
    /\ NoTokenCase =>
          /\ rqPc = "idle" /\ outcomes = <<>>
          /\ hPc = "exited" => OneErrorEnvelope("AUTH_FAILED")
          /\ (hPc = "exited" /\ opts.outputFile = "none") => exitCode = 10
    /\ NoIdCase =>
          /\ rqPc = "idle" /\ outcomes = <<>>
          /\ hPc = "exited" => OneErrorEnvelope("MISSING_ARGUMENT")
          /\ (hPc = "exited" /\ opts.outputFile = "none") => exitCode = 2

\* argument parsing failed: run() handed the error to handleError as command "notion"
ParseFailed == opts.command = "notion" /\ hPc # "parse"

\* C22: when argument parsing fails the invocation writes exactly one error envelope
\* with code INVALID_ARGUMENT and a non-empty command to stdout and exits with code 2;
\* no handler runs.
C22_ParseFailure ==
    ParseFailed =>
        /\ hPc \in {"handleError", "exited"}
        /\ rqPc = "idle" /\ pgPc = "idle" /\ proc["main"].pc = "idle"
        /\ hPc = "exited"
           => /\ OneErrorEnvelope("INVALID_ARGUMENT")
              /\ stdout[1].command # ""
              /\ exitCode = 2

\* C22, the part that holds: no handler runs, and with a config file that loads the
\* envelope and the exit code are as claimed.
C22_NoHandler ==
    ParseFailed =>
        /\ hPc \in {"handleError", "exited"}
        /\ rqPc = "idle" /\ pgPc = "idle" /\ proc["main"].pc = "idle"
        /\ (hPc = "exited" /\ opts.configOk)
           => /\ OneErrorEnvelope("INVALID_ARGUMENT")
              /\ stdout[1].command = "notion"
              /\ outFile = <<>>
              /\ exitCode = 2

Is5xx(o) == o.kind = "response" /\ o.status >= 500

\* C23: when an attempt of request() answers with a 5xx status and attempts remain,
\* another attempt is made after a backoff delay; the error is not surfaced at once.
C23_ServerErrorRetried ==
    \A i \in 1..Len(outcomes) :
        (Is5xx(outcomes[i]) /\ i <= rqOpts.retries) =>
            /\ Retried(i)
            /\ Len(slept) >= Cardinality({ j \in 1..i : Is5xx(outcomes[j]) })

\* the kinds the error code registry marks recoverable
RecoverableKinds ==
    { "INVALID_ARGUMENT", "MISSING_ARGUMENT", "RESOURCE_NOT_FOUND", "ALREADY_EXISTS",
      "RATE_LIMITED", "TIMEOUT", "CONFLICT", "PRECONDITION_FAILED",
      "CONFIRMATION_REQUIRED" }

\* the error envelopes on stdout of a command whose errors the model derives from
\* the code (the errors of the "local" handler are arbitrary)
ErrorEnvelopes ==
    { i \in 1..Len(stdout) :
        /\ opts.command # "local"
        /\ stdout[i].type = "envelope"
        /\ stdout[i].status = "error" }

\* C24: in every error envelope the recoverable flag is the fixed flag of the kind of
\* the error, whichever component raised it, request() on an HTTP status included.
C24_FixedRecoverable ==
    \A i \in ErrorEnvelopes :
        stdout[i].error.recoverable = (stdout[i].error.code \in RecoverableKinds)

\* C24, the part that holds: an error that does not come from an HTTP status has the
\* fixed flag of its kind.
C24_FixedUnlessHttp ==
    \A i \in ErrorEnvelopes :
        hErr.status = 0 =>
            stdout[i].error.recoverable = (stdout[i].error.code \in RecoverableKinds)

\* the page ends the loop by the rule of C25
Stopping(page) == ~page.has_more \/ page.next_cursor = Null

\* C25: paginateAll stops after the first page for which has_more is false or
\* next_cursor is null, either alone being enough: no fetchPage call follows the
\* stopping page, and its items are in the output.
C25_StopsAtLastPage ==
    /\ \A i \in 1..(Len(served) - 1) : ~Stopping(served[i])
    /\ (served # <<>> /\ Stopping(Last(served)))
       => /\ pgPc = "returned"
          /\ Len(cursorLog) = Len(served)
          /\ IF pgNdjson
             THEN stdout = ItemLines(Flatten(served)) \o <<SummaryLine(SumLen(served))>>
             ELSE pgResult.results = Flatten(served)

\* the second page says has_more = true and has no cursor: it ends the loop and its
\* item is in the result
C25_Witness ==
    /\ ~pgNdjson
    /\ pgPc = "returned"
    /\ Len(served) = 2
    /\ served[2].has_more
    /\ served[2].next_cursor = Null
    /\ Len(served[2].results) = 1
    /\ Len(cursorLog) = 2
    /\ pgResult.results = Flatten(served)
    /\ Len(pgResult.results) = 2

MetaKeys == {"note", "poll", "response"}

\* the metadata keys the patch of the running update names
NamedKeys(l) ==
    IF l.cmd = "file-uploads send" THEN {"response"}
    ELSE IF l.failed THEN {} ELSE {"poll"}

\* the updateOp step of p keeps, in the stored receipt it updates, every metadata key
\* that its patch does not name
MergedBy(p) ==
    \A i \in 1..Len(opsFile), j \in 1..Len(opsFile') :
        LET before == JSONparse(opsFile[i])
            after == JSONparse(opsFile'[j])
        IN  (before.op_id = proc[p].op.op_id /\ after.op_id = before.op_id) =>
                \A k \in MetaKeys \ NamedKeys(proc[p]) :
                    before.metadata[k] # "" => after.metadata[k] = before.metadata[k]

\* C26: when a stored receipt is updated (touchOp followed by updateOp, in ops wait
\* and in file-uploads send --async), every metadata key it had before and that the
\* update does not name is still there with the same value afterwards.
C26_MetadataMerged ==
    [][ \A p \in Procs :
          (proc[p].pc = "update" /\ proc'[p].pc # "update") => MergedBy(p) ]_vars

\* emitOutput is over and has written the output file
FileWritten == ctx.pc = "done" /\ ctx.outputFile # "none"

\* C27: the content written to the output file is byte for byte what the invocation
\* wrote to stdout for the envelope, pretty or compact, success or error.
C27_ByteIdentical == FileWritten => ctx.file = ctx.out

\* C27 as the code has it: stdout holds the serialisation of the envelope followed by
\* a line feed, and the file holds the same serialisation, with the same indentation,
\* without the line feed.
C27_SameJson ==
    FileWritten =>
        /\ ctx.out = ctx.file \o LineFeed
        /\ ctx.file = Stringify(ctx.envelope, IF ctx.pretty THEN 2 ELSE 0)

C27_Witness ==
    /\ FileWritten
    /\ ctx.pretty
    /\ ctx.envelope.status = "error"
    /\ ctx.file # <<>>
    /\ ctx.out # <<>>

\* ops wait of this invocation had a poll that failed, and has called updateOp
PollFailedAndWritten ==
    /\ opts.command = "ops wait"
    /\ proc["main"].failed
    /\ proc["main"].pc = "returned"

\* what C28 says of such a run, but for the write-back: the copy is FAILED /
\* POLL_FAILED, no poll follows, and the invocation exits 0 with the copy as the data
\* of a success envelope
FailedPollOutcome ==
    /\ proc["main"].op.status = "FAILED"
    /\ proc["main"].op.error.code = "POLL_FAILED"
    /\ proc["main"].op.op_id = proc["main"].args.id
    /\ rqPc = "idle"
    /\ proc["main"].wrote.fn = "updateOp"
    /\ hPc \in {"awaitHandler", "emit", "exited"}
    /\ hPc = "exited"
       => /\ exitCode = 0
          /\ Len(stdout) = 1
          /\ stdout[1].status = "success"
          /\ stdout[1].data = proc["main"].op

\* C28: when the poll request of ops wait fails for any reason, the receipt is written
\* back to the registry with status FAILED and error code POLL_FAILED, no further poll
\* is made, and the command ends with the FAILED receipt in a success envelope and
\* exit code 0.
C28_PollFailureWritten ==
    PollFailedAndWritten =>
        /\ FailedPollOutcome
        /\ proc["main"].wrote.stored

\* C28 as the code has it: the same, but the FAILED copy is in the registry after the
\* write only if the entry updateOp read under that op_id was not older than the
\* retention cutoff; an older entry is dropped by updateOp and the copy is only
\* returned.
C28_PollFailure ==
    PollFailedAndWritten =>
        /\ FailedPollOutcome
        /\ LET l == proc["main"]
               i == FindIndex(l.ops, l.args.id)
           IN  /\ (i # 0 /\ Kept(l.ops[i], l.wrote.at)) => l.wrote.stored
               /\ (i = 0 \/ ~Kept(l.ops[i], l.readAt)) => ~l.wrote.stored

\* a poll that failed with RATE_LIMITED: the FAILED copy is stored and returned
C28_Witness ==
    /\ PollFailedAndWritten
    /\ hPc = "exited"
    /\ exitCode = 0
    /\ proc["main"].op.error.message = "Request failed with 429"
    /\ proc["main"].wrote.stored
    /\ StatusesOf(opsFile, "X") = {"FAILED"}

\* the last registry write of p was an updateOp whose readOps() gave, under the op_id
\* of its argument, an entry already older than the retention cutoff
UpdatedExpired(p) ==
    LET l == proc[p]
        i == FindIndex(l.ops, l.op.op_id)
    IN  /\ l.wrote.fn = "updateOp"
        /\ l.pc # "update"
        /\ i # 0
        /\ ~Kept(l.ops[i], l.readAt)

\* C29: updateOp prunes before it matches: when the stored entry with the given op_id
\* is older than the retention cutoff, updateOp removes it and does not write the
\* refreshed copy, so the registry holds no receipt with that op_id (until another
\* process writes); an iteration of ops wait that follows fails with
\* RESOURCE_NOT_FOUND.
C29_PruneBeforeMatch ==
    \A p \in Procs :
        UpdatedExpired(p) =>
            /\ ~proc[p].wrote.stored
            /\ proc[Other(p)].cmd = "none" =>
                 /\ StatusesOf(opsFile, proc[p].op.op_id) = {}
                 /\ (proc[p].cmd = "ops wait" /\ ~proc[p].failed)
                    => /\ proc[p].pc \in {"sleep", "loop", "threw"}
                       /\ proc[p].pc = "threw"
                          => proc[p].result.error =
                               IF now < proc[p].deadline THEN OpNotFound ELSE WaitTimedOut

\* ops wait polled an expired receipt with success, updateOp dropped the receipt, and
\* the next iteration ended the invocation with RESOURCE_NOT_FOUND
C29_Witness ==
    /\ opts.command = "ops wait"
    /\ UpdatedExpired("main")
    /\ ~proc["main"].failed
    /\ proc["main"].polls = 1
    /\ opsFile = <<>>
    /\ hPc = "exited"
    /\ hErr = OpNotFound
    /\ exitCode = 4

\* the invocation is file-uploads send --async past its precondition checks and the
\* dry-run exit: a receipt was created
SendAsync ==
    /\ opts.command = "file-uploads send"
    /\ proc["main"].args.async
    /\ proc["main"].op # NoReceipt

\* the upload request of the invocation failed: the handler threw after its appendOp
\* and after fs.readFile gave the file
UploadFailed ==
    /\ SendAsync
    /\ proc["main"].pc = "threw"
    /\ proc["main"].wrote.fn = "appendOp"
    /\ proc["main"].args.fileOk

\* the receipt created by the invocation was still inside the retention window when
\* its updateOp wrote
UpdatedInWindow == Kept([updated_at |-> proc["main"].op.created_at], proc["main"].wrote.at)

\* C30: in file-uploads send --async the receipt is in the registry with status
\* IN_PROGRESS from before the upload request is issued and for as long as the request
\* runs; the registry holds it as COMPLETED only after the upload returned a response
\* and updateOp wrote, the data returned being then the stored receipt; when the
\* upload request fails the registry is not written again, the stored receipt stays
\* IN_PROGRESS and the invocation ends with an error envelope of that failure.
C30_ReceiptAroundUpload ==
    LET l == proc["main"]
        stored == StatusesOf(opsFile, l.op.op_id)
    IN  SendAsync =>
            /\ (l.pc = "request" \/ rqPc # "idle") =>
                   /\ l.wrote.fn = "appendOp"
                   /\ l.wrote.stored
                   /\ stored = {"IN_PROGRESS"}
            /\ "COMPLETED" \in stored =>
                   /\ l.pc = "returned"
                   /\ l.wrote.fn = "updateOp"
                   /\ l.op.metadata.response # ""
            /\ l.pc = "returned" =>
                   /\ l.op.status = "COMPLETED"
                   /\ l.result.data = l.op
                   /\ UpdatedInWindow => (l.wrote.stored /\ stored = {"COMPLETED"})
            /\ UploadFailed =>
                   /\ l.wrote.stored
                   /\ stored = {"IN_PROGRESS"}
                   /\ hPc = "exited" =>
                          /\ stdout # <<>>
                          /\ stdout[Len(stdout)] =
                               ErrorEnvelope("file-uploads send", Coerce(l.result.error))
                          /\ exitCode # 0

\* the upload returned 2xx and the COMPLETED receipt was stored and returned
C30_Witness ==
    /\ SendAsync
    /\ proc["main"].pc = "returned"
    /\ proc["main"].wrote.stored
    /\ StatusesOf(opsFile, proc["main"].op.op_id) = {"COMPLETED"}
    /\ hPc = "exited"
    /\ exitCode = 0
    /\ stdout = <<SuccessEnvelope("file-uploads send", proc["main"].op)>>

\* the upload failed with HTTP 500 and the invocation is over
C30_WitnessFailed ==
    /\ UploadFailed
    /\ hPc = "exited"
    /\ proc["main"].result.error.code = "INTERNAL_ERROR"
    /\ StatusesOf(opsFile, proc["main"].op.op_id) = {"IN_PROGRESS"}

====
